---------------------------- MODULE Spec2Model ----------------------------
(***************************************************************************)
(* Model of the datachonk CLI: the local static-analysis core              *)
(* (utils/analyzer: parseModel, detectAntiPatternsFromContent, reviewCode) *)
(* and the commands that wrap it (analyze, review), the core called once   *)
(* per file, and the configuration file (utils/config).                    *)
(*                                                                         *)
(* Texts and file names are TLA+ strings; the string primitives of         *)
(* JavaScript that the code uses (toLowerCase, includes, startsWith,       *)
(* split, the regular expressions) are computed character by character.    *)
(***************************************************************************)
EXTENDS Integers, Sequences, FiniteSets, TLC

(***************************************************************************)
(* Bounds of the model.                                                    *)
(***************************************************************************)
\* a content is made of at most MaxLines lines of the vocabulary Lines
MaxLines == 2
\* a command is run on at most MaxFiles files
MaxFiles == 2
\* the deepest stack of calls of a lineage traversal that is followed
MaxStack == 6
\* the calls of the wrapped function that are followed
MaxCalls == 2

(***************************************************************************)
(* JavaScript string primitives.                                           *)
(***************************************************************************)
NL == "\n"

Min(S) == CHOOSE x \in S : \A y \in S : x <= y

CharAt(s, i) == SubSeq(s, i, i)

\* s.startsWith(p, i - 1): p occurs in s at the 1-based position i
StartsWithAt(s, p, i) ==
  /\ i >= 1
  /\ i + Len(p) - 1 <= Len(s)
  /\ SubSeq(s, i, i + Len(p) - 1) = p

StartsWith(s, p) == StartsWithAt(s, p, 1)

\* s.includes(p)
Includes(s, p) == \E i \in 1..(Len(s) - Len(p) + 1) : StartsWithAt(s, p, i)

\* s.indexOf(p, from - 1) + 1: first position >= from where p occurs, 0 if none
IndexOf(s, p, from) ==
  LET hits == {i \in from..(Len(s) - Len(p) + 1) : StartsWithAt(s, p, i)}
  IN  IF hits = {} THEN 0 ELSE Min(hits)

UpperChars == <<"A","B","C","D","E","F","G","H","I","J","K","L","M",
                "N","O","P","Q","R","S","T","U","V","W","X","Y","Z">>
LowerChars == <<"a","b","c","d","e","f","g","h","i","j","k","l","m",
                "n","o","p","q","r","s","t","u","v","w","x","y","z">>
DigitChars == {"0","1","2","3","4","5","6","7","8","9"}

UpperSet == {UpperChars[k] : k \in 1..26}
LowerOf  == [c \in UpperSet |-> LowerChars[CHOOSE k \in 1..26 : UpperChars[k] = c]]

LowerChar(c) == IF c \in UpperSet THEN LowerOf[c] ELSE c

RECURSIVE LowerCased(_)
\* the lower-cased copy of s, character by character (the recursion halves s)
LowerCased(s) ==
  IF Len(s) = 0 THEN ""
  ELSE IF Len(s) = 1 THEN LowerChar(s)
  ELSE LET h == Len(s) \div 2
       IN  LowerCased(SubSeq(s, 1, h)) \o LowerCased(SubSeq(s, h + 1, Len(s)))

\* mutant of ToLower: the text is compared as written
ToLower_AsWritten(s) == s

\* s.toLowerCase()
ToLower(s) == LowerCased(s)

\* the regular-expression classes \w, \s, \d over the model's alphabet
IsWord(c)  == c \in DigitChars \/ c = "_" \/ c \in UpperSet
              \/ c \in {LowerChars[k] : k \in 1..26}
IsDigit(c) == c \in DigitChars
IsQuote(c) == c \in {"'", "\""}

\* position after the longest run, starting at i, of characters of class cls
\* (1 = \w, 2 = \s, 3 = [^'"])
SkipWhile(s, i, cls) ==
  LET InCls(c) == CASE cls = 1 -> IsWord(c)
                    [] cls = 2 -> c \in {" ", NL, "\t", "\r"}
                    [] OTHER   -> ~IsQuote(c)
  IN  Min({j \in i..Len(s) : ~InCls(CharAt(s, j))} \cup {Len(s) + 1})

SkipWord(s, i)     == SkipWhile(s, i, 1)
SkipSpace(s, i)    == SkipWhile(s, i, 2)
SkipNonQuote(s, i) == SkipWhile(s, i, 3)

RECURSIVE Split(_)
\* s.split("\n")
Split(s) ==
  LET k == IndexOf(s, NL, 1)
  IN  IF k = 0 THEN <<s>>
      ELSE <<SubSeq(s, 1, k - 1)>> \o Split(SubSeq(s, k + 1, Len(s)))

\* mutant of FindLine: the index of findIndex is kept as it is
FindLine_ZeroBased(lines, p) ==
  LET hits == {k \in 1..Len(lines) : Includes(lines[k], p)}
  IN  IF hits = {} THEN 0 - 1 ELSE Min(hits) - 1

\* lines.findIndex(l => pred(l)) + 1 for pred = "l includes p"
FindLine(lines, p) ==
  LET hits == {k \in 1..Len(lines) : Includes(lines[k], p)}
  IN  IF hits = {} THEN 0 ELSE Min(hits)

(***************************************************************************)
(* parseModel (utils/analyzer).                                            *)
(***************************************************************************)
\* mutant of TypeOf: the substring test comes first in the chain
TypeOf_SnapshotFirst(fileName) ==
  IF Includes(fileName, "snapshot") THEN "snapshot"
  ELSE IF StartsWith(fileName, "stg_") THEN "staging"
  ELSE IF StartsWith(fileName, "int_") THEN "intermediate"
  ELSE IF StartsWith(fileName, "fct_") THEN "fact"
  ELSE IF StartsWith(fileName, "dim_") THEN "dimension"
  ELSE "unknown"

\* mutant of TypeOf: the chain tests the lower-cased file name
TypeOf_LowerCased(fileName) ==
  IF StartsWith(ToLower(fileName), "stg_") THEN "staging"
  ELSE IF StartsWith(ToLower(fileName), "int_") THEN "intermediate"
  ELSE IF StartsWith(ToLower(fileName), "fct_") THEN "fact"
  ELSE IF StartsWith(ToLower(fileName), "dim_") THEN "dimension"
  ELSE IF Includes(ToLower(fileName), "snapshot") THEN "snapshot"
  ELSE "unknown"

\* the type chain of parseModel: first match wins, on the name as given
TypeOf(fileName) ==
  IF StartsWith(fileName, "stg_") THEN "staging"
  ELSE IF StartsWith(fileName, "int_") THEN "intermediate"
  ELSE IF StartsWith(fileName, "fct_") THEN "fact"
  ELSE IF StartsWith(fileName, "dim_") THEN "dimension"
  ELSE IF Includes(fileName, "snapshot") THEN "snapshot"
  ELSE "unknown"

NoMatch == [found |-> FALSE]

\* /\{\{\s*config\s*\(([\s\S]*?)\)\s*\}\}/ tried at position i:
\* the captured group, for the shortest capture that lets the rest match
ConfigMatchAt(s, i) ==
  LET j == SkipSpace(s, i + 2)
      k == SkipSpace(s, j + 6)
      ends == {e \in (k + 1)..Len(s) :
                 /\ CharAt(s, e) = ")"
                 /\ StartsWithAt(s, "}}", SkipSpace(s, e + 1))}
  IN  IF /\ StartsWithAt(s, "{{", i)
         /\ StartsWithAt(s, "config", j)
         /\ StartsWithAt(s, "(", k)
         /\ ends # {}
      THEN [found |-> TRUE, group |-> SubSeq(s, k + 1, Min(ends) - 1)]
      ELSE NoMatch

\* content.match(...config...): the leftmost match
ConfigMatch(s) ==
  LET hits == {i \in 1..Len(s) : ConfigMatchAt(s, i).found}
  IN  IF hits = {} THEN NoMatch ELSE ConfigMatchAt(s, Min(hits))

\* /materialized\s*=\s*['"](\w+)['"]/ tried at position i
MatMatchAt(s, i) ==
  LET a == SkipSpace(s, i + 12)
      b == SkipSpace(s, a + 1)
      c == SkipWord(s, b + 1)
  IN  IF /\ StartsWithAt(s, "materialized", i)
         /\ StartsWithAt(s, "=", a)
         /\ b <= Len(s) /\ IsQuote(CharAt(s, b))
         /\ c > b + 1
         /\ c <= Len(s) /\ IsQuote(CharAt(s, c))
      THEN [found |-> TRUE, group |-> SubSeq(s, b + 1, c - 1)]
      ELSE NoMatch

MatMatch(s) ==
  LET hits == {i \in 1..Len(s) : MatMatchAt(s, i).found}
  IN  IF hits = {} THEN NoMatch ELSE MatMatchAt(s, Min(hits))

\* /(\w+)\s*=\s*(['"]([^'"]+)['"]|(\w+))/ tried at position i;
\* value is match[3] || match[4], next is the position after the match
KvMatchAt(s, i) ==
  LET e == SkipWord(s, i)
      a == SkipSpace(s, e)
      b == SkipSpace(s, a + 1)
      c == SkipNonQuote(s, b + 1)
      w == SkipWord(s, b)
  IN  IF ~(/\ i <= Len(s) /\ IsWord(CharAt(s, i))
           /\ StartsWithAt(s, "=", a)
           /\ b <= Len(s))
      THEN NoMatch
      ELSE IF /\ IsQuote(CharAt(s, b))
              /\ c > b + 1
              /\ c <= Len(s) /\ IsQuote(CharAt(s, c))
      THEN [found |-> TRUE, key |-> SubSeq(s, i, e - 1),
            value |-> SubSeq(s, b + 1, c - 1), next |-> c + 1]
      ELSE IF w > b
      THEN [found |-> TRUE, key |-> SubSeq(s, i, e - 1),
            value |-> SubSeq(s, b, w - 1), next |-> w]
      ELSE NoMatch

RECURSIVE KvPairs(_, _, _)
\* the loop over configStr.matchAll(...): every pair is assigned into config
\* in order of appearance, a later key overwriting an earlier one
KvPairs(s, from, config) ==
  LET hits == {i \in from..Len(s) : KvMatchAt(s, i).found}
  IN  IF hits = {} THEN config
      ELSE LET m == KvMatchAt(s, Min(hits))
           IN  KvPairs(s, m.next, (m.key :> m.value) @@ config)

EmptyConfig == [k \in {} |-> ""]

\* /\{\{\s*ref\(['"]([^'"]+)['"]\)\s*\}\}/ tried at position i
RefMatchAt(s, i) ==
  LET j == SkipSpace(s, i + 2)
      q == j + 4
      c == SkipNonQuote(s, q + 1)
      d == SkipSpace(s, c + 2)
  IN  IF /\ StartsWithAt(s, "{{", i)
         /\ StartsWithAt(s, "ref(", j)
         /\ q <= Len(s) /\ IsQuote(CharAt(s, q))
         /\ c > q + 1
         /\ c <= Len(s) /\ IsQuote(CharAt(s, c))
         /\ StartsWithAt(s, ")", c + 1)
         /\ StartsWithAt(s, "}}", d)
      THEN [found |-> TRUE, group |-> SubSeq(s, q + 1, c - 1), next |-> d + 2]
      ELSE NoMatch

RECURSIVE RefMatches_Dedup(_, _)
\* mutant of RefMatches: a name is pushed only the first time it is met
RefMatches_Dedup(s, from) ==
  LET hits == {i \in from..Len(s) : RefMatchAt(s, i).found}
  IN  IF hits = {} THEN << >>
      ELSE LET m == RefMatchAt(s, Min(hits))
               Other(name) == name # m.group
           IN  <<m.group>> \o SelectSeq(RefMatches_Dedup(s, m.next), Other)

RECURSIVE RefMatches(_, _)
\* the loop over content.matchAll(...ref...): refs.push(match[1])
RefMatches(s, from) ==
  LET hits == {i \in from..Len(s) : RefMatchAt(s, i).found}
  IN  IF hits = {} THEN << >>
      ELSE LET m == RefMatchAt(s, Min(hits))
           IN  <<m.group>> \o RefMatches(s, m.next)

\* (content.match(/\bwith\b/gi) || []).length
WithCount(s) ==
  LET low == ToLower(s)
  IN  Cardinality({i \in 1..Len(low) :
        /\ StartsWithAt(low, "with", i)
        /\ (i = 1 \/ ~IsWord(CharAt(low, i - 1)))
        /\ (i + 4 > Len(low) \/ ~IsWord(CharAt(low, i + 4)))})

\* (content.match(/\),\s*\w+\s+as\s*\(/gi) || []).length
ContinuationCount(s) ==
  LET low == ToLower(s)
  IN  Cardinality({i \in 1..Len(low) :
        LET j == SkipSpace(low, i + 2)
            k == SkipWord(low, j)
            m == SkipSpace(low, k)
            n == SkipSpace(low, m + 2)
        IN  /\ StartsWithAt(low, "),", i)
            /\ k > j
            /\ m > k
            /\ StartsWithAt(low, "as", m)
            /\ StartsWithAt(low, "(", n)})

\* parseModel(content, fileName); sources and columns, which no rule of the
\* detector and no check of reviewCode reads, are left out of the record
parseModel(content, fileName) ==
  LET configMatch == ConfigMatch(content)
      matMatch == IF configMatch.found THEN MatMatch(configMatch.group)
                  ELSE NoMatch
  IN  [name            |-> fileName,
       type            |-> TypeOf(fileName),
       materialization |-> IF matMatch.found THEN matMatch.group ELSE "null",
       config          |-> IF configMatch.found
                           THEN KvPairs(configMatch.group, 1, EmptyConfig)
                           ELSE EmptyConfig,
       refs            |-> RefMatches(content, 1),
       hasTests        |-> FALSE,
       cteCount        |-> WithCount(content) + ContinuationCount(content),
       lineCount       |-> Len(Split(content))]

(***************************************************************************)
(* detectAntiPatternsFromContent (utils/analyzer).  An issue is modelled   *)
(* by its pattern, its severity and its line (a field that is present     *)
(* only when the code sets it); the fixed texts location, fix and          *)
(* explanation of each rule are left out.                                  *)
(***************************************************************************)
Issue(pattern, severity) == [pattern |-> pattern, severity |-> severity]
IssueAt(pattern, severity, line) ==
  [pattern |-> pattern, severity |-> severity, line |-> line]

\* if (cond) issues.push(issue)
PushIf(cond, issue) == IF cond THEN <<issue>> ELSE << >>

\* lines.findIndex(l => l.toLowerCase().includes(p)) + 1
FindLowerLine(lines, p) ==
  FindLine([k \in 1..Len(lines) |-> ToLower(lines[k])], p)

\* /'(20\d{2}-\d{2}-\d{2})'/ tried at position i
DateMatchAt(s, i) ==
  /\ i + 11 <= Len(s)
  /\ StartsWithAt(s, "'20", i)
  /\ \A k \in {3, 4, 6, 7, 9, 10} : IsDigit(CharAt(s, i + k))
  /\ CharAt(s, i + 5) = "-"
  /\ CharAt(s, i + 8) = "-"
  /\ CharAt(s, i + 11) = "'"

\* content.match(...date...): match[0] of the leftmost match
DateMatch(s) ==
  LET hits == {i \in 1..(Len(s) - 11) : DateMatchAt(s, i)}
  IN  IF hits = {} THEN NoMatch
      ELSE [found |-> TRUE, text |-> SubSeq(s, Min(hits), Min(hits) + 11)]

\* /kw\s+(\w+)\(.*?\)\s*=/ for kw = where, on: is there a match in s
FuncOnFilter(s, kw) ==
  \E i \in 1..Len(s) :
    LET j == SkipSpace(s, i + Len(kw))
        k == SkipWord(s, j)
    IN  /\ StartsWithAt(s, kw, i)
        /\ j > i + Len(kw)
        /\ k > j
        /\ StartsWithAt(s, "(", k)
        /\ \E e \in (k + 1)..Len(s) :
             /\ CharAt(s, e) = ")"
             /\ \A d \in (k + 1)..(e - 1) : CharAt(s, d) \notin {NL, "\r"}
             /\ StartsWithAt(s, "=", SkipSpace(s, e + 1))

\* match[k] of the result of String.prototype.match: a TypeError when the
\* result is null
ReadGroup(m) == IF m.found THEN "ok" ELSE "TypeError"

\* mutant of IfMatch: the group is read without the test
IfMatch_Unguarded(m) == TRUE

\* if (configMatch), if (matMatch), if (hardcodedDateMatch): the test that
\* stands before every read of a group
IfMatch(m) == m.found

\* a read of a group under its test
GuardedRead(m) == IF IfMatch(m) THEN ReadGroup(m) ELSE "ok"

\* how a call of parseModel ends: the reads of configMatch[1] and, inside
\* that block, of matMatch[1]
parseModelOutcome(content) ==
  IF GuardedRead(ConfigMatch(content)) # "ok" THEN "TypeError"
  ELSE IF ConfigMatch(content).found
  THEN GuardedRead(MatMatch(ConfigMatch(content).group))
  ELSE "ok"

\* how a call of the detector ends: the read of hardcodedDateMatch[0]
detectOutcome(content) == GuardedRead(DateMatch(content))

\* mutant of HasUniqueKey: any entry of the config block counts as a key
HasUniqueKey_AnyConfig(model) == DOMAIN model.config # {}

\* model.config.unique_key is truthy: every value parseModel stores is a
\* non-empty string
HasUniqueKey(model) == "unique_key" \in DOMAIN model.config

\* mutant of IncrementalWithoutKey: the rule reads the parsed materialization
IncrementalWithoutKey_ByMaterialization(sqlLower, model) ==
  model.materialization = "incremental" /\ ~HasUniqueKey(model)

\* sqlLower.includes("is_incremental()") && !model.config.unique_key
IncrementalWithoutKey(sqlLower, model) ==
  Includes(sqlLower, "is_incremental()") /\ ~HasUniqueKey(model)

\* mutant of RefInStaging: a single ref is let through
RefInStaging_SingleRefAllowed(model) ==
  model.type = "staging" /\ Len(model.refs) > 1

\* model.type === "staging" and model.refs.length > 0
RefInStaging(model) ==
  model.type = "staging" /\ Len(model.refs) > 0

\* mutant of WarehouseIs: the warehouse is compared in lower case
WarehouseIs_IgnoringCase(warehouse, name) == ToLower(warehouse) = name

\* warehouse === "snowflake", warehouse === "bigquery"
WarehouseIs(warehouse, name) == warehouse = name

\* the rule chain of the detector: each rule pushes at most one issue, in
\* the order of the code
RuleIssues(content, model, warehouse) ==
  LET sqlLower == ToLower(content)
      lines == Split(content)
      incremental == Includes(sqlLower, "is_incremental()")
      hasUpperBound == \/ Includes(sqlLower, "< current")
                       \/ Includes(sqlLower, "< getdate")
                       \/ Includes(sqlLower, "< now()")
                       \/ Includes(sqlLower, "< sysdate")
      hardcodedDateMatch == DateMatch(content)
      funcOnFilterMatch == \/ FuncOnFilter(sqlLower, "where")
                           \/ FuncOnFilter(sqlLower, "on")
  IN  PushIf(/\ Includes(sqlLower, "select *")
             /\ ~Includes(sqlLower, "select * from ("),
             IssueAt("SELECT * in production", "high",
                     FindLowerLine(lines, "select *")))
   \o PushIf(/\ model.type = "staging"
             /\ Includes(sqlLower, " join ")
             /\ ~Includes(sqlLower, "deduplication"),
             IssueAt("Join in staging model", "medium",
                     FindLowerLine(lines, " join ")))
   \o PushIf(RefInStaging(model),
             Issue("ref() in staging model", "high"))
   \o PushIf(IncrementalWithoutKey(sqlLower, model),
             Issue("Incremental without unique_key", "critical"))
   \o PushIf(incremental /\ ~hasUpperBound,
             Issue("Unbounded incremental filter", "medium"))
   \o PushIf(hardcodedDateMatch.found,
             IssueAt("Hardcoded date literal", "medium",
                     IF hardcodedDateMatch.found
                     THEN FindLine(lines, hardcodedDateMatch.text) ELSE 0))
   \o PushIf(Includes(sqlLower, "select distinct") /\ Includes(sqlLower, " join "),
             Issue("DISTINCT after JOIN (possible fan-out fix)", "high"))
   \o PushIf(Includes(sqlLower, "cross join"),
             IssueAt("CROSS JOIN detected", "critical",
                     FindLowerLine(lines, "cross join")))
   \o PushIf(funcOnFilterMatch,
             Issue("Function on filter/join column", "high"))
   \o PushIf(/\ WarehouseIs(warehouse, "snowflake")
             /\ Includes(sqlLower, "uuid_string()")
             /\ model.materialization = "view",
             Issue("Non-deterministic function in view", "medium"))
   \o PushIf(/\ WarehouseIs(warehouse, "bigquery")
             /\ Includes(sqlLower, "limit")
             /\ ~Includes(sqlLower, "order by"),
             Issue("LIMIT without ORDER BY", "medium"))
   \o PushIf(model.cteCount > 7,
             Issue("High CTE count", "low"))

HasSeverity(issue, severity) == issue.severity = severity

\* mutant of detectAntiPatternsFromContent: the issues are returned most
\* severe first
detectAntiPatterns_BySeverity(content, model, warehouse) ==
  LET found == RuleIssues(content, model, warehouse)
      Crit(i) == HasSeverity(i, "critical")
      High(i) == HasSeverity(i, "high")
      Medi(i) == HasSeverity(i, "medium")
      Low(i)  == HasSeverity(i, "low")
  IN  SelectSeq(found, Crit) \o SelectSeq(found, High)
      \o SelectSeq(found, Medi) \o SelectSeq(found, Low)

\* detectAntiPatternsFromContent(content, model, warehouse): return issues
detectAntiPatternsFromContent(content, model, warehouse) ==
  RuleIssues(content, model, warehouse)

\* detectAntiPatterns(model, warehouse): the stub the analyze command calls
detectAntiPatterns(model, warehouse) == << >>

(***************************************************************************)
(* reviewCode (utils/analyzer).                                            *)
(***************************************************************************)
\* mutant of Deduct: a critical issue costs 20
Deduct_Critical20(score, severity) ==
  CASE severity = "critical" -> score - 20
    [] severity = "high"     -> score - 15
    [] severity = "medium"   -> score - 10
    [] severity = "low"      -> score - 5
    [] OTHER                 -> score

\* the switch on ap.severity: score -= 25 / 15 / 10 / 5
Deduct(score, severity) ==
  CASE severity = "critical" -> score - 25
    [] severity = "high"     -> score - 15
    [] severity = "medium"   -> score - 10
    [] severity = "low"      -> score - 5
    [] OTHER                 -> score

RECURSIVE DeductAll(_, _)
\* the loop over antiPatterns, as far as the score goes
DeductAll(score, antiPatterns) ==
  IF antiPatterns = << >> THEN score
  ELSE DeductAll(Deduct(score, Head(antiPatterns).severity), Tail(antiPatterns))

Max2(a, b) == IF a >= b THEN a ELSE b
Min2(a, b) == IF a <= b THEN a ELSE b

\* mutant of ClampScore: the lower bound is forgotten
ClampScore_NoFloor(score) == Min2(100, score)

\* score = Math.max(0, Math.min(100, score))
ClampScore(score) == Max2(0, Min2(100, score))

\* mutant of Verdict: a high issue blocks whether strict or not
Verdict_HighBlocks(issues, strict) ==
  IF \E k \in 1..Len(issues) : issues[k].severity \in {"critical", "high"}
  THEN "request_changes"
  ELSE IF Len(issues) > 0 THEN "comment"
  ELSE "approve"

\* the verdict chain at the end of reviewCode
Verdict(issues, strict) ==
  IF \E k \in 1..Len(issues) : issues[k].severity = "critical"
  THEN "request_changes"
  ELSE IF \E k \in 1..Len(issues) : issues[k].severity = "high"
  THEN (IF strict THEN "request_changes" ELSE "comment")
  ELSE IF Len(issues) > 0 THEN "comment"
  ELSE "approve"

\* the review issue pushed for an anti-pattern: severity, title, line
ReviewIssue(ap) ==
  IF "line" \in DOMAIN ap
  THEN [severity |-> ap.severity, title |-> ap.pattern, line |-> ap.line]
  ELSE [severity |-> ap.severity, title |-> ap.pattern]

\* the strengths block of reviewCode
Strengths(model, content) ==
  LET sqlLower == ToLower(content)
  IN  PushIf(Includes(content, "config("),
             "Uses config block for model configuration")
   \o PushIf(Includes(content, "-- ") \/ Includes(content, "/*"),
             "Code includes comments")
   \o PushIf(\/ Includes(sqlLower, "coalesce")
             \/ Includes(sqlLower, "ifnull")
             \/ Includes(sqlLower, "nvl"),
             "Handles null values appropriately")
   \o PushIf(model.materialization = "incremental",
             "Uses incremental materialization for efficiency")
   \o PushIf(model.cteCount > 0 /\ model.cteCount <= 5,
             "Uses CTEs for readable organization")

\* mutant of InconsistentNaming: the name is held against the prefixes the
\* type chain of parseModel reads (stg_, int_, fct_, dim_)
InconsistentNaming_TypePrefix(model) ==
  /\ model.type # "unknown"
  /\ ~StartsWith(model.name,
                 CASE model.type = "staging" -> "stg_"
                   [] model.type = "intermediate" -> "int_"
                   [] model.type = "fact" -> "fct_"
                   [] model.type = "dimension" -> "dim_"
                   [] OTHER -> "snapshot")

InconsistentNaming(model) ==
  /\ model.type # "unknown"
  /\ ~StartsWith(model.name, SubSeq(model.type, 1, 3) \o "_")

\* the issues the strict block pushes
StrictIssues(model, content, strict) ==
  IF strict
  THEN PushIf(~Includes(content, "description"),
              [severity |-> "low", title |-> "Missing model description"])
    \o PushIf(InconsistentNaming(model),
              [severity |-> "low", title |-> "Inconsistent naming convention"])
  ELSE << >>

\* mutant of StrictDeduct: the strict issues raise the score
StrictDeduct_Bonus(score, strictIssues) == score + 5 * Len(strictIssues)

\* mutant of StrictDeduct: the strict issues are pushed but cost nothing
StrictDeduct_Free(score, strictIssues) == score

\* score -= 5 with each issue of the strict block
StrictDeduct(score, strictIssues) == score - 5 * Len(strictIssues)

\* the score of a list of issues, as the loop and the clamp compute it
ScoreOf(issueList) == ClampScore(DeductAll(100, issueList))

reviewCode(model, content, warehouse, strict) ==
  LET antiPatterns == detectAntiPatternsFromContent(content, model, warehouse)
      strictIssues == StrictIssues(model, content, strict)
      issues == [k \in 1..Len(antiPatterns) |-> ReviewIssue(antiPatterns[k])]
                \o strictIssues
      score == StrictDeduct(DeductAll(100, antiPatterns), strictIssues)
  IN  [score     |-> ClampScore(score),
       overall   |-> Verdict(issues, strict),
       strengths |-> Strengths(model, content),
       issues    |-> issues]

(***************************************************************************)
(* Inputs of the model.                                                    *)
(***************************************************************************)
\* the lines a content is made of
Lines ==
  <<"{{ config(materialized='incremental') }}",
    "select * from {{ source('raw','orders') }}",
    "{{ config(materialized='view', unique_key='id') }}",
    "Select Distinct uuid_string() From {{ ref('int_customers') }} Join b On f(x) = '2024-01-01'",
    "{% if is_incremental() %}",
    "where ts < now() order by 1 -- description",
    "from a Cross Join b limit 5",
    "with a as (1),b as (2), c AS (3) with With WITH with with",
    "select * from ({{ ref('a') }} {{ ref(\"b\") }} {{ ref('a') }}) coalesce deduplication">>

RECURSIVE JoinLines(_)
\* the text of a file: its lines joined by line feeds
JoinLines(ls) ==
  IF ls = << >> THEN ""
  ELSE IF Len(ls) = 1 THEN ls[1]
  ELSE ls[1] \o NL \o JoinLines(Tail(ls))

\* the contents: up to MaxLines lines of Lines
Contents ==
  {JoinLines([k \in DOMAIN ls |-> Lines[ls[k]]]) :
     ls \in UNION {[1..n -> 1..Len(Lines)] : n \in 0..MaxLines}}

FileNames ==
  {"stg_customers.sql", "fct_orders.sql", "int_orders.sql", "dim_users.sql",
   "models/staging/stg_customers.sql"}

Warehouses == {"snowflake", "bigquery", "postgres"}

\* the files of the project the commands are run on
ProjectFiles ==
  {[path |-> "stg_customers.sql",
    content |-> "select id from {{ ref('int_customers') }}"],
   [path |-> "models/staging/stg_customers.sql",
    content |-> "select id from {{ ref('int_customers') }}"],
   [path |-> "models/marts/fct_orders.sql",
    content |-> "select a.id from a\nCROSS JOIN b"],
   [path |-> "models/marts/dim_users.sql",
    content |-> "select id from raw.users"],
   [path |-> "fct_orders.sql",
    content |-> Lines[1] \o NL \o Lines[2]]}

(***************************************************************************)
(* utils/config: the configuration file .datachonk.yml.  A JavaScript      *)
(* value is a record of its type and its text; a configuration keeps the   *)
(* fields version, warehouse, apiUrl, modeling.approach, ai and            *)
(* connections (conventions, analysis and generation, which no operation   *)
(* of the module reads or changes by itself, are left out).  A YAML file   *)
(* is modelled by the scalar texts it holds under each key.                *)
(***************************************************************************)
JsNull      == [t |-> "null", v |-> "null"]
JsUndefined == [t |-> "undefined", v |-> "undefined"]
JsStr(s)    == [t |-> "string", v |-> s]
JsBool(b)   == [t |-> "boolean", v |-> IF b THEN "true" ELSE "false"]
JsNum(n)    == [t |-> "number", v |-> n]

\* a || b: b when a is not truthy
OrElse(a, b) ==
  IF CASE a.t = "string"  -> a.v # ""
       [] a.t = "boolean" -> a.v = "true"
       [] a.t = "number"  -> a.v # "0"
       [] OTHER           -> FALSE
  THEN a ELSE b

DEFAULT_API_URL == "https://datachonk.dev"

NoConnections == [n \in {} |-> JsNull]

DEFAULT_CONFIG ==
  [version     |-> JsNum("1"),
   warehouse   |-> JsStr("snowflake"),
   apiUrl      |-> JsUndefined,
   modeling    |-> [approach |-> JsStr("kimball")],
   ai          |-> [enabled |-> JsBool(FALSE), apiKey |-> JsNull],
   connections |-> NoConnections]

\* join(projectPath, ".datachonk.yml")
getConfigPath(projectPath) ==
  IF projectPath = "." THEN ".datachonk.yml"
  ELSE projectPath \o "/.datachonk.yml"

\* a text of digits only: YAML reads it as an integer
IsIntegerText(s) ==
  Len(s) > 0 /\ \A i \in 1..Len(s) : IsDigit(CharAt(s, i))

\* a text that starts as a date (dddd-dd-dd): YAML reads it as a timestamp
IsTimestampText(s) ==
  /\ Len(s) >= 10
  /\ \A i \in {1, 2, 3, 4, 6, 7, 9, 10} : IsDigit(CharAt(s, i))
  /\ CharAt(s, 5) = "-"
  /\ CharAt(s, 8) = "-"

\* a string that, written plain, YAML would read as something else
NeedsQuotes(s) ==
  \/ s \in {"", "~", "null", "Null", "NULL", "true", "True", "TRUE",
            "false", "False", "FALSE", "{}", "[]"}
  \/ IsIntegerText(s)
  \/ IsTimestampText(s)

\* yaml.dump of a scalar
DumpScalar(x) ==
  IF x.t = "string" /\ NeedsQuotes(x.v) THEN "'" \o x.v \o "'" ELSE x.v

\* yaml.load of a scalar text
LoadScalar(text) ==
  IF Len(text) >= 2 /\ CharAt(text, 1) = "'" /\ CharAt(text, Len(text)) = "'"
  THEN JsStr(SubSeq(text, 2, Len(text) - 1))
  ELSE IF text \in {"", "~", "null", "Null", "NULL"} THEN JsNull
  ELSE IF text \in {"true", "True", "TRUE"} THEN JsBool(TRUE)
  ELSE IF text \in {"false", "False", "FALSE"} THEN JsBool(FALSE)
  ELSE IF IsIntegerText(text) THEN JsNum(text)
  ELSE IF IsTimestampText(text) THEN [t |-> "date", v |-> text]
  ELSE JsStr(text)

NoKeys == [k \in {} |-> ""]

\* what a path of the file system holds: no file (kind absent), a file
\* that is not YAML (invalid), an empty file (empty), or a YAML mapping (doc)
NoFile      == [kind |-> "absent", top |-> NoKeys, modeling |-> NoKeys,
                ai |-> NoKeys, connections |-> NoKeys]

\* the keys of a mapping that hold a defined value, each with its text
DumpKeys(obj) ==
  [k \in {f \in DOMAIN obj : obj[f].t # "undefined"} |-> DumpScalar(obj[k])]

\* yaml.dump(config, { indent: 2 })
YamlDump(config) ==
  [kind        |-> "doc",
   top         |-> DumpKeys([version   |-> config.version,
                             warehouse |-> config.warehouse,
                             apiUrl    |-> config.apiUrl]),
   modeling    |-> DumpKeys(config.modeling),
   ai          |-> DumpKeys(config.ai),
   connections |-> [n \in DOMAIN config.connections |->
                      DumpKeys(config.connections[n])]]

\* the values of a mapping of the file, over those of the defaults:
\* { ...defaults, ...loaded }
Spread(defaults, texts) ==
  [k \in DOMAIN defaults \cup DOMAIN texts |->
     IF k \in DOMAIN texts THEN LoadScalar(texts[k]) ELSE defaults[k]]

\* the connections of the file over those of the defaults
SpreadConnections(defaults, loaded) ==
  [n \in DOMAIN defaults \cup DOMAIN loaded |->
     IF n \in DOMAIN loaded
     THEN [k \in DOMAIN loaded[n] |-> LoadScalar(loaded[n][k])]
     ELSE defaults[n]]

\* loadConfig returns the object DEFAULT_CONFIG itself, not a copy: there
\* is no file, or yaml.load throws, or it returns undefined (empty file)
\* and the read of config.modeling throws
ReturnsDefaultObject(fs, projectPath) ==
  fs[getConfigPath(projectPath)].kind # "doc"

\* loadConfig(projectPath), on the file system fs and with DEFAULT the
\* present value of the object DEFAULT_CONFIG
loadConfig(fs, DEFAULT, projectPath) ==
  IF ReturnsDefaultObject(fs, projectPath) THEN DEFAULT
  ELSE [version     |-> Spread(DEFAULT, fs[getConfigPath(projectPath)].top).version,
        warehouse   |-> Spread(DEFAULT, fs[getConfigPath(projectPath)].top).warehouse,
        apiUrl      |-> Spread(DEFAULT, fs[getConfigPath(projectPath)].top).apiUrl,
        modeling    |-> Spread(DEFAULT.modeling,
                               fs[getConfigPath(projectPath)].modeling),
        ai          |-> Spread(DEFAULT.ai, fs[getConfigPath(projectPath)].ai),
        connections |-> SpreadConnections(DEFAULT.connections,
                          fs[getConfigPath(projectPath)].connections)]

\* mutant of getApiUrl: the environment variable is asked first
getApiUrl_EnvFirst(fs, DEFAULT, environment) ==
  OrElse(environment,
         OrElse(loadConfig(fs, DEFAULT, ".").apiUrl, JsStr(DEFAULT_API_URL))).v

\* getApiUrl(): config.apiUrl || process.env.DATACHONK_API_URL || DEFAULT_API_URL
getApiUrl(fs, DEFAULT, environment) ==
  OrElse(loadConfig(fs, DEFAULT, ".").apiUrl,
         OrElse(environment, JsStr(DEFAULT_API_URL))).v

\* the operations of utils/config that change a configuration
WithApiKey(config, apiKey) ==
  [config EXCEPT !.ai.apiKey = JsStr(apiKey), !.ai.enabled = JsBool(TRUE)]

\* config.connections[name] = { ...connection, lastUsed: now }
WithConnection(config, name, connection, now) ==
  [config EXCEPT !.connections =
     (name :> ([lastUsed |-> JsStr(now)] @@ connection)) @@ @]

\* delete config.connections[name]
WithoutConnection(config, name) ==
  [config EXCEPT !.connections = [n \in (DOMAIN @) \ {name} |-> @[n]]]

\* saveConfig(config, projectPath): the file system after the write
saveConfig(fs, config, projectPath) ==
  [fs EXCEPT ![getConfigPath(projectPath)] = YamlDump(config)]

(***************************************************************************)
(* Inputs of the configuration operations.                                 *)
(***************************************************************************)
ProjectPaths == {".", "proj"}
ConfigPaths == {getConfigPath(projectPath) : projectPath \in ProjectPaths}

\* files written by hand, with fields left out
RedshiftFile ==
  [NoFile EXCEPT !.kind = "doc",
                 !.top = [version |-> "1", warehouse |-> "redshift"]]

\* the connection names the process uses
ConnectionNames == {"prod"}

(***************************************************************************)
(* State.                                                                  *)
(***************************************************************************)
VARIABLES
  content,    \* the text handed to the core
  fileName,   \* the file name handed to parseModel
  warehouse,  \* the warehouse of the last detector / review call; for a
              \* command, the warehouse of the loaded configuration
  strict,     \* the strict flag of the last review call
  pc,         \* which call of the core has returned
  model,      \* the ParsedModel
  issues,     \* the result of detectAntiPatternsFromContent
  review,     \* the result of reviewCode
  cmd,        \* the command that has run: "none", "analyze" or "review"
  files,      \* the files the command works on
  opts,       \* the options of the command, and whether its I/O failed
  allIssues,  \* analyze: the issues collected over the files
  reviews,    \* review: the local reviews, one per file
  exitCode,   \* the exit code of the process, -1 while it runs
  calls,      \* the calls of the core in flight, one frame per file
  disk,       \* what each configuration path of the file system holds
  defaults,   \* the object DEFAULT_CONFIG of the running process
  env,        \* process.env.DATACHONK_API_URL
  result,     \* the last call of utils/config and what it returned
  saved,      \* per configuration path, the configuration saved last
  nodes,      \* lineage: the Map of LineageNode, by model name
  target,     \* lineage: the model the command was given
  direction,  \* lineage: "upstream" or "downstream"
  traversal,  \* lineage: the function that walks, collectLineage or
              \* printLineageTree
  maxDepth,   \* lineage: parseInt(options.depth || "10", 10)
  lpc,        \* lineage: where the traversal stands
  arg,        \* lineage: the model and maxDepth of the call being entered
  stack,      \* lineage: the frames of the calls that iterate their deps
  visited,    \* lineage: the Set shared by the calls of one traversal
  expanded,   \* lineage: the models whose deps were iterated, in order
  out,        \* lineage: the returned list, or the names printed
  cacheDir,   \* cache: the entry file of each key, or none
  clock,      \* cache: Date.now(), in ms
  cacheResult,\* cache: the last call of the cache and what it returned
  lastSet,    \* cache: per key, the last set and whether del came after
  pending,    \* cache: the calls of the wrapped function in flight
  invocations \* cache: the invocations of the function given to cached()

coreVars == <<content, fileName, strict, pc, model, issues, review>>
cmdVars == <<cmd, files, opts, allIssues, reviews, exitCode>>
extVars == <<calls, disk, defaults, env, result, saved>>
vars == <<content, fileName, warehouse, strict, pc, model, issues, review,
          cmd, files, opts, allIssues, reviews, exitCode,
          calls, disk, defaults, env, result, saved,
          nodes, target, direction, traversal, maxDepth, lpc, arg, stack,
          visited, expanded, out,
          cacheDir, clock, cacheResult, lastSet, pending, invocations>>
linVars == <<nodes, target, direction, traversal, maxDepth, lpc, arg, stack,
             visited, expanded, out>>
cacheVars == <<cacheDir, clock, cacheResult, lastSet, pending, invocations>>

NoModel == [type |-> "none"]
NoReview == [overall |-> "none"]
NoOpts == [json |-> FALSE, strict |-> FALSE, local |-> FALSE, fails |-> FALSE]

NoResult == [op |-> "none", path |-> "", value |-> JsUndefined]
NotSaved == [written |-> FALSE, config |-> DEFAULT_CONFIG]

\* no call of the core is in flight and utils/config has not been used
ExtIdle ==
  /\ calls = << >>
  /\ disk = [path \in ConfigPaths |-> NoFile]
  /\ defaults = DEFAULT_CONFIG
  /\ env = JsUndefined
  /\ result = NoResult
  /\ saved = [path \in ConfigPaths |-> NotSaved]

CmdIdle ==
  /\ cmd = "none"
  /\ files = << >>
  /\ opts = NoOpts
  /\ allIssues = << >>
  /\ reviews = << >>
  /\ exitCode = -1

CoreIdle ==
  /\ content = ""
  /\ fileName = ""
  /\ strict = FALSE
  /\ pc = "idle"
  /\ model = NoModel
  /\ issues = << >>
  /\ review = NoReview

\* no lineage command has run
LinIdle ==
  /\ nodes = << >>
  /\ target = ""
  /\ direction = "upstream"
  /\ traversal = "none"
  /\ maxDepth = [nan |-> FALSE, n |-> 0]
  /\ lpc = "off"
  /\ arg = [model |-> "", maxDepth |-> [nan |-> FALSE, n |-> 0]]
  /\ stack = << >>
  /\ visited = {}
  /\ expanded = << >>
  /\ out = << >>

\* utils/cache has not been used
CacheIdle ==
  /\ cacheDir = << >>
  /\ clock = 0
  /\ cacheResult = [op |-> "none"]
  /\ lastSet = << >>
  /\ pending = << >>
  /\ invocations = << >>

Init ==
  /\ content \in Contents
  /\ fileName \in FileNames
  /\ warehouse = "none"
  /\ strict = FALSE
  /\ pc = "start"
  /\ model = NoModel
  /\ issues = << >>
  /\ review = NoReview
  /\ CmdIdle
  /\ ExtIdle
  /\ LinIdle
  /\ CacheIdle

\* the caller already holds a model: only the detector is run
InitDetector ==
  /\ content \in Contents
  /\ model \in
       {[name |-> "stg_customers", type |-> ty, materialization |-> mat,
         config |-> EmptyConfig, refs |-> refs, hasTests |-> FALSE,
         cteCount |-> 0, lineCount |-> 1] :
          ty \in {"staging", "fact"}, mat \in {"null", "view"},
          refs \in {<< >>, <<"int_customers">>}}
  /\ fileName = model.name
  /\ warehouse = "none"
  /\ strict = FALSE
  /\ pc = "parsed"
  /\ issues = << >>
  /\ review = NoReview
  /\ CmdIdle
  /\ ExtIdle
  /\ LinIdle
  /\ CacheIdle

\* a command is about to run on the files of a project
InitCmd ==
  /\ CoreIdle
  /\ warehouse \in Warehouses
  /\ cmd = "none"
  /\ files \in UNION {[1..n -> ProjectFiles] : n \in 0..MaxFiles}
  /\ opts = NoOpts
  /\ allIssues = << >>
  /\ reviews = << >>
  /\ exitCode = -1
  /\ ExtIdle
  /\ LinIdle
  /\ CacheIdle

\* only parseModel is run, the file name being the subject
InitParser ==
  /\ content \in {""} \cup {Lines[k] : k \in 1..Len(Lines)}
  \* prefixes, nested prefixes, the substring, upper-case spellings
  /\ fileName \in
       {"stg_orders.sql", "stg_int_orders.sql", "stg_orders_snapshot.sql",
        "int_orders.sql", "int_fct_snapshot.sql", "fct_orders.sql",
        "fct_dim_orders.sql", "dim_users.sql", "dim_snapshot_users.sql",
        "orders_snapshot.sql", "raw_stg_orders.sql", "orders.sql",
        "STG_Orders.sql", "Stg_orders_snapshot.sql", "Orders_Snapshot.sql"}
  /\ warehouse = "none"
  /\ strict = FALSE
  /\ pc = "start"
  /\ model = NoModel
  /\ issues = << >>
  /\ review = NoReview
  /\ CmdIdle
  /\ ExtIdle
  /\ LinIdle
  /\ CacheIdle

ParseModel ==
  /\ pc = "start"
  /\ model' = IF parseModelOutcome(content) = "ok"
              THEN parseModel(content, fileName) ELSE NoModel
  /\ pc' = IF parseModelOutcome(content) = "ok" THEN "parsed" ELSE "threw"
  /\ UNCHANGED <<content, fileName, warehouse, strict, issues, review>>
  /\ UNCHANGED cmdVars
  /\ UNCHANGED extVars
  /\ UNCHANGED <<linVars, cacheVars>>

\* a call of the detector with a warehouse of W
Detect(W) ==
  /\ pc = "parsed"
  /\ \E w \in W :
       /\ warehouse' = w
       /\ issues' = IF detectOutcome(content) = "ok"
                    THEN detectAntiPatternsFromContent(content, model, w)
                    ELSE << >>
  /\ pc' = IF detectOutcome(content) = "ok" THEN "detected" ELSE "threw"
  /\ UNCHANGED <<content, fileName, strict, model, review>>
  /\ UNCHANGED cmdVars
  /\ UNCHANGED extVars
  /\ UNCHANGED <<linVars, cacheVars>>


ReviewCode ==
  /\ pc = "detected"
  /\ \E s \in BOOLEAN :
       /\ strict' = s
       /\ review' = reviewCode(model, content, warehouse, s)
  /\ pc' = "reviewed"
  /\ UNCHANGED <<content, fileName, warehouse, model, issues>>
  /\ UNCHANGED cmdVars
  /\ UNCHANGED extVars
  /\ UNCHANGED <<linVars, cacheVars>>

(***************************************************************************)
(* The commands.                                                           *)
(***************************************************************************)
\* the last segment of a path
LastSegment(path) ==
  LET slashes == {i \in 1..Len(path) : CharAt(path, i) = "/"}
  IN  IF slashes = {} THEN path
      ELSE LET last == CHOOSE i \in slashes : \A j \in slashes : j <= i
           IN  SubSeq(path, last + 1, Len(path))

\* path.basename(path, ext)
Basename(path, ext) ==
  LET base == LastSegment(path)
      cut == Len(base) - Len(ext)
  IN  IF cut >= 1 /\ SubSeq(base, cut + 1, Len(base)) = ext
      THEN SubSeq(base, 1, cut)
      ELSE base

RECURSIVE Flatten(_)
Flatten(seqs) ==
  IF seqs = << >> THEN << >> ELSE Head(seqs) \o Flatten(Tail(seqs))

\* one turn of the loop of analyzeCommand: parse, detect, tag with the file
AnalyzeFile(file, wh) ==
  [k \in 1..Len(detectAntiPatterns(
                  parseModel(file.content, Basename(file.path, ".sql")), wh)) |->
     [file |-> file.path] @@
     detectAntiPatterns(
       parseModel(file.content, Basename(file.path, ".sql")), wh)[k]]

\* analyzeCommand(options): fails stands for an exception of the glob or of
\* a file read, which the catch block turns into exit code 1
AnalyzeCommand ==
  /\ cmd = "none"
  /\ \E json \in BOOLEAN, fails \in BOOLEAN :
       /\ opts' = [json |-> json, strict |-> FALSE, local |-> TRUE,
                   fails |-> fails]
       /\ allIssues' = IF fails \/ Len(files) = 0 THEN << >>
                       ELSE Flatten([k \in 1..Len(files) |->
                                       AnalyzeFile(files[k], warehouse)])
       /\ exitCode' = IF fails THEN 1
                      ELSE IF Len(files) = 0 THEN 0
                      ELSE IF json THEN 0
                      ELSE IF Len(SelectSeq(allIssues',
                                         LAMBDA issue : issue.severity = "critical")) > 0 THEN 1
                      ELSE 0
  /\ cmd' = "analyze"
  /\ UNCHANGED <<files, reviews, warehouse>>
  /\ UNCHANGED coreVars
  /\ UNCHANGED extVars
  /\ UNCHANGED <<linVars, cacheVars>>

\* one turn of the local loop of reviewCommand: { file: file.path, ...review }
ReviewFile(file, wh, s) ==
  [file |-> file.path] @@
  reviewCode(parseModel(file.content, file.path), file.content, wh, s)

Verdicts == {"approve", "comment", "request_changes"}

\* mutant of LocalExitCode: blocking issues end the command with 1 whether
\* strict is set or not
LocalExitCode_AnyBlocker(json, s, revs) ==
  IF json THEN 0
  ELSE IF \E k \in 1..Len(revs) : revs[k].overall = "request_changes"
  THEN 1
  ELSE 0

\* the end of the local review: --json returns before the summary; the
\* summary exits with 1 when hasBlockers and options.strict
LocalExitCode(json, s, revs) ==
  IF json THEN 0
  ELSE IF s /\ \E k \in 1..Len(revs) : revs[k].overall = "request_changes"
  THEN 1
  ELSE 0

\* reviewCommand(files, options) in local mode (no API key, or --local)
ReviewCommandLocal ==
  /\ cmd = "none"
  /\ \E s \in BOOLEAN, json \in BOOLEAN, fails \in BOOLEAN :
       /\ opts' = [json |-> json, strict |-> s, local |-> TRUE,
                   fails |-> fails]
       /\ reviews' = IF fails \/ Len(files) = 0 THEN << >>
                     ELSE [k \in 1..Len(files) |->
                             ReviewFile(files[k], warehouse, s)]
       /\ exitCode' = IF fails THEN 1
                      ELSE IF Len(files) = 0 THEN 1
                      ELSE LocalExitCode(json, s, reviews')
  /\ cmd' = "review"
  /\ UNCHANGED <<files, allIssues, warehouse>>
  /\ UNCHANGED coreVars
  /\ UNCHANGED extVars
  /\ UNCHANGED <<linVars, cacheVars>>

\* reviewCommand(files, options) with an API key and without --local: the
\* verdict is the server's; fails stands for a failed request
ReviewCommandRemote ==
  /\ cmd = "none"
  /\ \E s \in BOOLEAN, json \in BOOLEAN, fails \in BOOLEAN, verdict \in Verdicts :
       /\ opts' = [json |-> json, strict |-> s, local |-> FALSE,
                   fails |-> fails]
       /\ exitCode' = IF fails THEN 1
                      ELSE IF Len(files) = 0 THEN 1
                      ELSE IF json THEN 0
                      ELSE IF verdict = "request_changes" /\ s THEN 1
                      ELSE 0
  /\ cmd' = "review"
  /\ UNCHANGED <<files, allIssues, reviews, warehouse>>
  /\ UNCHANGED coreVars
  /\ UNCHANGED extVars
  /\ UNCHANGED <<linVars, cacheVars>>

Next == ParseModel \/ Detect(Warehouses) \/ ReviewCode

NextCmd == AnalyzeCommand \/ ReviewCommandLocal \/ ReviewCommandRemote

Spec == Init /\ [][Next]_vars

\* the detector alone, called with any warehouse string
SpecDetector == InitDetector /\ [][Detect(Warehouses \cup {"oracle", "Snowflake", ""})]_vars

SpecParser == InitParser /\ [][ParseModel]_vars

SpecCmd == InitCmd /\ [][NextCmd]_vars

(***************************************************************************)
(* The core called once per file, the calls in any order (the loops of     *)
(* the commands call parseModel and reviewCode for each file).  A frame    *)
(* holds what the call for one file has bound so far.                      *)
(***************************************************************************)
NewCall == [pc |-> "start", model |-> NoModel, issues |-> << >>,
            review |-> NoReview]

\* mutant of Bind: the value is bound in a variable that all calls share
Bind_Shared(frames, k, frame) == [j \in DOMAIN frames |-> frame]

\* const model = ..., const review = ...: a binding of the call for file k
Bind(frames, k, frame) == [frames EXCEPT ![k] = frame]

InitBatch ==
  /\ content = ""
  /\ fileName = ""
  /\ strict \in BOOLEAN
  /\ pc = "idle"
  /\ model = NoModel
  /\ issues = << >>
  /\ review = NoReview
  /\ warehouse \in Warehouses
  /\ cmd = "none"
  \* one to MaxFiles of three files of the project
  /\ files \in UNION {[1..n -> {file \in ProjectFiles :
                                   file.path \in {"stg_customers.sql",
                                                  "models/marts/fct_orders.sql",
                                                  "fct_orders.sql"}}] :
                       n \in 1..MaxFiles}
  /\ opts = NoOpts
  /\ allIssues = << >>
  /\ reviews = << >>
  /\ exitCode = -1
  /\ calls = [k \in 1..Len(files) |-> NewCall]
  /\ disk = [path \in ConfigPaths |-> NoFile]
  /\ defaults = DEFAULT_CONFIG
  /\ env = JsUndefined
  /\ result = NoResult
  /\ saved = [path \in ConfigPaths |-> NotSaved]
  /\ LinIdle
  /\ CacheIdle

\* const model = parseModel(file.content, file.path), for one of the files
ParseFile ==
  /\ \E k \in DOMAIN calls :
       /\ calls[k].pc = "start"
       /\ calls' = Bind(calls, k,
            [calls[k] EXCEPT
               !.pc = "parsed",
               !.model = parseModel(files[k].content, files[k].path)])
  /\ UNCHANGED <<warehouse, disk, defaults, env, result, saved>>
  /\ UNCHANGED coreVars
  /\ UNCHANGED cmdVars
  /\ UNCHANGED <<linVars, cacheVars>>

\* detectAntiPatternsFromContent(content, model, warehouse), for one file
DetectFile ==
  /\ \E k \in DOMAIN calls :
       /\ calls[k].pc = "parsed"
       /\ calls' = Bind(calls, k,
            [calls[k] EXCEPT
               !.pc = "detected",
               !.issues = detectAntiPatternsFromContent(
                            files[k].content, calls[k].model, warehouse)])
  /\ UNCHANGED <<warehouse, disk, defaults, env, result, saved>>
  /\ UNCHANGED coreVars
  /\ UNCHANGED cmdVars
  /\ UNCHANGED <<linVars, cacheVars>>

\* const review = reviewCode(model, file.content, warehouse, strict)
ReviewFileCall ==
  /\ \E k \in DOMAIN calls :
       /\ calls[k].pc = "detected"
       /\ calls' = Bind(calls, k,
            [calls[k] EXCEPT
               !.pc = "reviewed",
               !.review = reviewCode(calls[k].model, files[k].content,
                                     warehouse, strict)])
  /\ UNCHANGED <<warehouse, disk, defaults, env, result, saved>>
  /\ UNCHANGED coreVars
  /\ UNCHANGED cmdVars
  /\ UNCHANGED <<linVars, cacheVars>>

NextBatch == ParseFile \/ DetectFile \/ ReviewFileCall

SpecBatch == InitBatch /\ [][NextBatch]_vars

(***************************************************************************)
(* The operations of utils/config, called in any order in one process.     *)
(***************************************************************************)
InitConfig ==
  /\ CoreIdle
  /\ CmdIdle
  /\ warehouse = "none"
  /\ calls = << >>
  \* a path holds nothing, a file that is not YAML, an empty file, or a
  \* file with fields left out
  /\ disk \in [ConfigPaths ->
                 {NoFile,
                  [NoFile EXCEPT !.kind = "invalid"],
                  [NoFile EXCEPT !.kind = "empty"],
                  RedshiftFile,
                  [NoFile EXCEPT !.kind = "doc",
                                 !.top = [version |-> "1",
                                          apiUrl |-> "https://config.example.com"]],
                  [NoFile EXCEPT !.kind = "doc",
                                 !.top = [version |-> "1",
                                          warehouse |-> "bigquery"],
                                 !.modeling = [approach |-> "data_vault"]]}]
  /\ disk[getConfigPath("proj")] \in {NoFile, RedshiftFile}
  /\ defaults = DEFAULT_CONFIG
  \* process.env.DATACHONK_API_URL: not set, set to nothing, set to a URL
  /\ env \in {JsUndefined, JsStr(""), JsStr("https://env.example.com")}
  /\ result = NoResult
  /\ saved = [path \in ConfigPaths |-> NotSaved]
  /\ LinIdle
  /\ CacheIdle

\* loadConfig(projectPath)
LoadConfig ==
  /\ \E projectPath \in ProjectPaths :
       result' = [op |-> "loadConfig", path |-> projectPath,
                  value |-> loadConfig(disk, defaults, projectPath)]
  /\ UNCHANGED <<warehouse, calls, disk, defaults, env, saved>>
  /\ UNCHANGED coreVars
  /\ UNCHANGED cmdVars
  /\ UNCHANGED <<linVars, cacheVars>>

\* saveConfig(config, projectPath)
SaveConfig ==
  /\ \E config \in
          {[version     |-> JsNum("1"),
            warehouse   |-> JsStr("databricks"),
            apiUrl      |-> JsUndefined,
            modeling    |-> [approach |-> JsStr("obt")],
            ai          |-> [enabled |-> JsBool(TRUE),
                             apiKey |-> JsStr("test-key")],
            connections |-> NoConnections],
           [version     |-> JsNum("1"),
            warehouse   |-> JsStr("postgres"),
            apiUrl      |-> JsStr("https://config.example.com"),
            modeling    |-> [approach |-> JsStr("kimball")],
            ai          |-> [enabled |-> JsBool(FALSE),
                             apiKey |-> JsStr("12345")],
            connections |-> NoConnections]},
        projectPath \in ProjectPaths :
       /\ disk' = saveConfig(disk, config, projectPath)
       /\ saved' = [saved EXCEPT ![getConfigPath(projectPath)] =
                      [written |-> TRUE, config |-> config]]
       /\ result' = [op |-> "saveConfig", path |-> projectPath,
                     value |-> JsUndefined]
  /\ UNCHANGED <<warehouse, calls, defaults, env>>
  /\ UNCHANGED coreVars
  /\ UNCHANGED cmdVars
  /\ UNCHANGED <<linVars, cacheVars>>

\* setApiKey(apiKey): the object loadConfig(".") returned is changed and
\* saved; when it is DEFAULT_CONFIG itself, DEFAULT_CONFIG is changed
SetApiKey ==
  /\ \E apiKey \in {"test-key"} :
       /\ defaults' = IF ReturnsDefaultObject(disk, ".")
                      THEN WithApiKey(defaults, apiKey) ELSE defaults
       /\ disk' = saveConfig(disk,
                    WithApiKey(loadConfig(disk, defaults, "."), apiKey), ".")
       /\ saved' = [saved EXCEPT ![getConfigPath(".")] =
                      [written |-> TRUE,
                       config |-> WithApiKey(loadConfig(disk, defaults, "."),
                                             apiKey)]]
       /\ result' = [op |-> "setApiKey", path |-> ".", value |-> JsUndefined]
  /\ UNCHANGED <<warehouse, calls, env>>
  /\ UNCHANGED coreVars
  /\ UNCHANGED cmdVars
  /\ UNCHANGED <<linVars, cacheVars>>

\* saveConnection(name, connection)
SaveConnection ==
  \* now: new Date().toISOString()
  /\ \E name \in ConnectionNames,
        connection \in {[type |-> JsStr("postgres"), name |-> JsStr("prod")]},
        now \in {"2026-01-01T00:00:00.000Z", "2026-01-02T00:00:00.000Z"} :
       /\ defaults' = IF ReturnsDefaultObject(disk, ".")
                      THEN WithConnection(defaults, name, connection, now)
                      ELSE defaults
       /\ disk' = saveConfig(disk,
                    WithConnection(loadConfig(disk, defaults, "."),
                                   name, connection, now), ".")
       /\ saved' = [saved EXCEPT ![getConfigPath(".")] =
                      [written |-> TRUE,
                       config |-> WithConnection(
                                    loadConfig(disk, defaults, "."),
                                    name, connection, now)]]
       /\ result' = [op |-> "saveConnection", path |-> ".", name |-> name,
                     value |-> JsUndefined]
  /\ UNCHANGED <<warehouse, calls, env>>
  /\ UNCHANGED coreVars
  /\ UNCHANGED cmdVars
  /\ UNCHANGED <<linVars, cacheVars>>

\* getConnection(name): getConnections()[name] || null
GetConnection ==
  /\ \E name \in ConnectionNames :
       result' = [op |-> "getConnection", path |-> ".", name |-> name,
                  value |-> IF name \in DOMAIN
                                  loadConfig(disk, defaults, ".").connections
                            THEN loadConfig(disk, defaults, ".")
                                   .connections[name]
                            ELSE JsNull]
  /\ UNCHANGED <<warehouse, calls, disk, defaults, env, saved>>
  /\ UNCHANGED coreVars
  /\ UNCHANGED cmdVars
  /\ UNCHANGED <<linVars, cacheVars>>

\* deleteConnection(name): true when the connection was there
DeleteConnection ==
  /\ \E name \in ConnectionNames :
       IF name \in DOMAIN loadConfig(disk, defaults, ".").connections
       THEN /\ defaults' = IF ReturnsDefaultObject(disk, ".")
                           THEN WithoutConnection(defaults, name)
                           ELSE defaults
            /\ disk' = saveConfig(disk,
                         WithoutConnection(loadConfig(disk, defaults, "."),
                                           name), ".")
            /\ saved' = [saved EXCEPT ![getConfigPath(".")] =
                           [written |-> TRUE,
                            config |-> WithoutConnection(
                                         loadConfig(disk, defaults, "."),
                                         name)]]
            /\ result' = [op |-> "deleteConnection", path |-> ".",
                          name |-> name, value |-> JsBool(TRUE)]
       ELSE /\ result' = [op |-> "deleteConnection", path |-> ".",
                          name |-> name, value |-> JsBool(FALSE)]
            /\ UNCHANGED <<defaults, disk, saved>>
  /\ UNCHANGED <<warehouse, calls, env>>
  /\ UNCHANGED coreVars
  /\ UNCHANGED cmdVars
  /\ UNCHANGED <<linVars, cacheVars>>

\* getApiUrl()
GetApiUrl ==
  /\ result' = [op |-> "getApiUrl", path |-> ".",
                value |-> getApiUrl(disk, defaults, env)]
  /\ UNCHANGED <<warehouse, calls, disk, defaults, env, saved>>
  /\ UNCHANGED coreVars
  /\ UNCHANGED cmdVars
  /\ UNCHANGED <<linVars, cacheVars>>

NextConfig ==
  \/ LoadConfig
  \/ SaveConfig
  \/ SetApiKey
  \/ SaveConnection
  \/ DeleteConnection
  \/ GetConnection
  \/ GetApiUrl

SpecConfig == InitConfig /\ [][NextConfig]_vars

(***************************************************************************)
(* commands/lineage: the graph of the project and its two traversals.  A   *)
(* number of JavaScript is a record [nan, n]: NaN, or the integer n.       *)
(***************************************************************************)
\* parseInt(text, 10): white space, an optional sign, the leading digits;
\* NaN when no digit is there
parseInt(text) ==
  LET start == SkipWhile(text, 1, 2)
      signed == start <= Len(text) /\ CharAt(text, start) \in {"-", "+"}
      first == IF signed THEN start + 1 ELSE start
      last == Min({j \in first..Len(text) : ~IsDigit(CharAt(text, j))}
                  \cup {Len(text) + 1}) - 1
      value[j \in (first - 1)..last] ==
        IF j < first THEN 0
        ELSE 10 * value[j - 1]
             + (CHOOSE d \in 0..9 : CharAt("0123456789", d + 1) = CharAt(text, j))
  IN  IF last < first THEN [nan |-> TRUE, n |-> 0]
      ELSE [nan |-> FALSE,
            n |-> IF signed /\ CharAt(text, start) = "-"
                  THEN 0 - value[last] ELSE value[last]]

\* second pass: upstreamNode.downstream.push(name), file after file, once
\* for every upstream entry that names the node
DownstreamOf(fs, u) ==
  LET pushes[k \in 0..Len(fs)] ==
        IF k = 0 THEN << >>
        ELSE pushes[k - 1]
             \o [i \in 1..Len(SelectSeq(fs[k].upstream, LAMBDA x : x = u))
                   |-> fs[k].name]
  IN  pushes[Len(fs)]

\* the Map nodes after the two passes over the files
BuildNodes(fs) ==
  [name \in {fs[k].name : k \in 1..Len(fs)} |->
     [upstream   |-> fs[CHOOSE k \in 1..Len(fs) : fs[k].name = name].upstream,
      downstream |-> DownstreamOf(fs, name)]]

\* the projects: per file, the refs and sources found in it, in text order
LineageProjects ==
  {<<[name |-> "fct_orders", upstream |-> fct],
     [name |-> "int_orders", upstream |-> int],
     [name |-> "stg_orders", upstream |-> stg],
     [name |-> "base_orders", upstream |-> base]>> :
     fct \in {<<"int_orders", "stg_orders">>, <<"stg_orders", "int_orders">>,
              <<"fct_orders">>, <<"int_orders", "int_orders">>},
     int \in {<<"stg_orders">>, <<"fct_orders">>,
              <<"stg_orders", "source:raw.customers">>},
     stg \in {<<"base_orders">>, << >>, <<"int_orders">>},
     base \in {<<"source:raw.orders">>, <<"missing_model">>, <<"fct_orders">>}}

InitLineage ==
  /\ CoreIdle
  /\ CmdIdle
  /\ ExtIdle
  /\ CacheIdle
  /\ warehouse = "none"
  /\ nodes \in {BuildNodes(fs) : fs \in LineageProjects}
  /\ target = ""
  /\ direction = "upstream"
  /\ traversal = "none"
  /\ maxDepth = [nan |-> FALSE, n |-> 0]
  /\ lpc = "idle"
  /\ arg = [model |-> "", maxDepth |-> [nan |-> FALSE, n |-> 0]]
  /\ stack = << >>
  /\ visited = {}
  /\ expanded = << >>
  /\ out = << >>

\* lineageCommand(model, options) up to the start of one of its traversals:
\* collectLineage (--json, impact assessment) or printLineageTree
LineageCommand ==
  /\ lpc = "idle"
  /\ \E m \in {"fct_orders", "base_orders", "no_such_model"},
        depth \in {JsUndefined, JsStr("0"), JsStr("1"), JsStr("2"),
                   JsStr("3"), JsStr("-1"), JsStr("abc")},
        dir \in {"upstream", "downstream"},
        fn \in {"collectLineage", "printLineageTree"} :
       /\ target' = m
       /\ direction' = dir
       /\ traversal' = fn
       /\ maxDepth' = parseInt(OrElse(depth, JsStr("10")).v)
       /\ arg' = [model |-> m, maxDepth |-> maxDepth']
       \* if (!targetNode) process.exit(1)
       /\ lpc' = IF m \in DOMAIN nodes THEN "enter" ELSE "exit1"
  /\ UNCHANGED <<nodes, stack, visited, expanded, out>>
  /\ UNCHANGED <<coreVars, cmdVars, extVars, cacheVars, warehouse>>

\* mutant of StopsAt: only the depth ends the recursion
StopsAt_DepthOnly(depth, seen, m) == ~depth.nan /\ depth.n = 0

\* maxDepth === 0 || visited.has(model)
StopsAt(depth, seen, m) == (~depth.nan /\ depth.n = 0) \/ m \in seen

\* [...new Set(result)]
Dedup(s) ==
  LET keep[k \in 0..Len(s)] ==
        IF k = 0 THEN << >>
        ELSE IF \E j \in 1..(k - 1) : s[j] = s[k] THEN keep[k - 1]
        ELSE Append(keep[k - 1], s[k])
  IN  keep[Len(s)]

\* a call is entered: it returns at once, or marks the model and starts to
\* iterate the deps of its node
Enter ==
  /\ lpc = "enter"
  /\ Len(stack) < MaxStack
  /\ IF StopsAt(arg.maxDepth, visited, arg.model)
     THEN /\ lpc' = IF stack = << >> THEN "done" ELSE "loop"
          /\ UNCHANGED <<stack, visited, expanded>>
     ELSE /\ visited' = visited \cup {arg.model}
          /\ IF arg.model \in DOMAIN nodes
             THEN /\ stack' = Append(stack, [model |-> arg.model,
                                             maxDepth |-> arg.maxDepth,
                                             i |-> 1, result |-> << >>])
                  /\ expanded' = Append(expanded, arg.model)
                  /\ lpc' = "loop"
             ELSE /\ lpc' = IF stack = << >> THEN "done" ELSE "loop"
                  /\ UNCHANGED <<stack, expanded>>
  /\ UNCHANGED <<nodes, target, direction, traversal, maxDepth, arg, out>>
  /\ UNCHANGED <<coreVars, cmdVars, extVars, cacheVars, warehouse>>

\* one iteration of the loop over deps: the dep is pushed (or printed), and
\* a dep that is no source is walked into with maxDepth - 1
Visit ==
  /\ lpc = "loop"
  /\ stack[Len(stack)].i <= Len(nodes[stack[Len(stack)].model][direction])
  /\ LET f == stack[Len(stack)]
         dep == nodes[f.model][direction][f.i]
     IN  /\ stack' = [stack EXCEPT ![Len(stack)] =
                        [f EXCEPT !.i = @ + 1,
                                  !.result = IF traversal = "collectLineage"
                                             THEN Append(@, dep) ELSE @]]
         /\ out' = IF traversal = "printLineageTree"
                   THEN Append(out, dep) ELSE out
         /\ IF /\ ~StartsWith(dep, "source:")
               /\ \/ traversal = "collectLineage"
                  \/ dep \in DOMAIN nodes /\ dep \notin visited
            THEN /\ lpc' = "enter"
                 /\ arg' = [model |-> dep,
                            maxDepth |-> [f.maxDepth EXCEPT
                                            !.n = IF f.maxDepth.nan
                                                  THEN @ ELSE @ - 1]]
            ELSE /\ lpc' = "loop"
                 /\ arg' = arg
  /\ UNCHANGED <<nodes, target, direction, traversal, maxDepth, visited,
                 expanded>>
  /\ UNCHANGED <<coreVars, cmdVars, extVars, cacheVars, warehouse>>

\* the loop is over: the call returns, its deduplicated result is spread
\* into the caller's
Return ==
  /\ lpc = "loop"
  /\ stack[Len(stack)].i > Len(nodes[stack[Len(stack)].model][direction])
  /\ IF Len(stack) = 1
     THEN /\ stack' = << >>
          /\ out' = IF traversal = "collectLineage"
                    THEN Dedup(stack[1].result) ELSE out
          /\ lpc' = "done"
     ELSE /\ stack' = [SubSeq(stack, 1, Len(stack) - 1)
                         EXCEPT ![Len(stack) - 1].result =
                           @ \o Dedup(stack[Len(stack)].result)]
          /\ out' = out
          /\ lpc' = "loop"
  /\ UNCHANGED <<nodes, target, direction, traversal, maxDepth, arg, visited,
                 expanded>>
  /\ UNCHANGED <<coreVars, cmdVars, extVars, cacheVars, warehouse>>

NextLineage ==
  \/ LineageCommand
  \/ Enter
  \/ Visit
  \/ Return

SpecLineage == InitLineage /\ [][NextLineage]_vars

\* the calls are synchronous: a traversal that can take a step takes it
SpecLineageLive == SpecLineage /\ WF_vars(NextLineage)

(***************************************************************************)
(* utils/cache: one JSON file per key.  index.ts calls initCache() with no *)
(* argument, so config is DEFAULT_CONFIG: enabled, defaultTTL 3600 s.      *)
(***************************************************************************)
\* JSON.stringify of a scalar: a string is quoted; a property whose value
\* is undefined is left out of the object, so it has no text
JsonStringify(x) ==
  CASE x.t = "string"    -> "\"" \o x.v \o "\""
    [] x.t = "undefined" -> ""
    [] OTHER             -> x.v

\* JSON.parse of the text of a scalar
JsonParse(text) ==
  IF text = "null" THEN JsNull
  ELSE IF text \in {"true", "false"} THEN [t |-> "boolean", v |-> text]
  ELSE IF StartsWith(text, "\"") THEN JsStr(SubSeq(text, 2, Len(text) - 1))
  ELSE JsNum(text)

\* generateCacheKey(namespace, ...args): the digest of
\* JSON.stringify({ namespace, args }), written as the text it is taken of
generateCacheKey(namespace, args) ==
  LET joined[k \in 0..Len(args)] ==
        IF k = 0 THEN ""
        ELSE joined[k - 1] \o (IF k > 1 THEN "," ELSE "")
             \o (IF args[k].t = "undefined" THEN "null"
                 ELSE JsonStringify(args[k]))
  IN  "sha256({\"namespace\":" \o JsonStringify(JsStr(namespace))
      \o ",\"args\":[" \o joined[Len(args)] \o "]})"

\* the argument lists the wrapped function is called with
ArgLists == {<<JsStr("prod"), JsStr("public")>>, <<JsStr("prod,public")>>}

\* the keys in use: one set directly, and those of the wrapped function
CacheKeys == {"scan:prod"} \cup {generateCacheKey("scan", a) : a \in ArgLists}

\* mutant of get: the expiration is not looked at
get_Unexpiring(dir, key, t) ==
  IF ~dir[key].exists THEN [value |-> JsNull, dir |-> dir]
  ELSE [value |-> IF dir[key].hasData THEN JsonParse(dir[key].data)
                  ELSE JsUndefined,
        dir |-> dir]

\* get(key) at the time t: what it returns and what it leaves in the
\* directory
get(dir, key, t) ==
  IF ~dir[key].exists THEN [value |-> JsNull, dir |-> dir]
  ELSE IF t > dir[key].expiresAt
  THEN [value |-> JsNull, dir |-> [dir EXCEPT ![key] = [exists |-> FALSE]]]
  ELSE [value |-> IF dir[key].hasData THEN JsonParse(dir[key].data)
                  ELSE JsUndefined,
        dir |-> dir]

\* set(key, data, { ttl }) at the time t
set(dir, key, data, ttl, t) ==
  [dir EXCEPT ![key] =
     [exists    |-> TRUE,
      hasData   |-> data.t # "undefined",
      data      |-> JsonStringify(data),
      timestamp |-> t,
      expiresAt |-> t + parseInt(OrElse(ttl, JsNum("3600")).v).n * 1000]]

InitCache ==
  /\ CoreIdle
  /\ CmdIdle
  /\ ExtIdle
  /\ LinIdle
  /\ warehouse = "none"
  /\ cacheDir = [key \in CacheKeys |-> [exists |-> FALSE]]
  /\ clock = 0
  /\ cacheResult = [op |-> "none"]
  /\ lastSet = [key \in CacheKeys |-> [written |-> FALSE]]
  /\ pending = [c \in 1..MaxCalls |-> [state |-> "idle"]]
  /\ invocations = << >>

\* set(key, data, options)
Set ==
  /\ \E data \in {JsStr("rows"), JsStr("null"), JsNull},
        ttl \in {JsUndefined, JsNum("0"), JsNum("2")} :
       /\ cacheDir' = set(cacheDir, "scan:prod", data, ttl, clock)
       /\ lastSet' = [lastSet EXCEPT !["scan:prod"] =
                        [written |-> TRUE, value |-> data, ttl |-> ttl,
                         at |-> clock, deleted |-> FALSE]]
       /\ cacheResult' = [op |-> "set", key |-> "scan:prod", at |-> clock]
  /\ UNCHANGED <<clock, pending, invocations>>
  /\ UNCHANGED <<coreVars, cmdVars, extVars, linVars, warehouse>>

\* get(key)
Get ==
  /\ \E key \in CacheKeys :
       /\ cacheResult' = [op |-> "get", key |-> key, at |-> clock,
                          entry |-> cacheDir[key],
                          value |-> get(cacheDir, key, clock).value]
       /\ cacheDir' = get(cacheDir, key, clock).dir
  /\ UNCHANGED <<clock, lastSet, pending, invocations>>
  /\ UNCHANGED <<coreVars, cmdVars, extVars, linVars, warehouse>>

\* del(key)
Del ==
  /\ \E key \in CacheKeys :
       /\ cacheResult' = [op |-> "del", key |-> key, at |-> clock,
                          value |-> JsBool(cacheDir[key].exists)]
       /\ cacheDir' = [cacheDir EXCEPT ![key] = [exists |-> FALSE]]
       /\ lastSet' = [lastSet EXCEPT ![key] =
                        IF @.written THEN [@ EXCEPT !.deleted = TRUE] ELSE @]
  /\ UNCHANGED <<clock, pending, invocations>>
  /\ UNCHANGED <<coreVars, cmdVars, extVars, linVars, warehouse>>

\* clearExpired()
ClearExpired ==
  /\ cacheDir' = [key \in CacheKeys |->
                    IF cacheDir[key].exists /\ clock > cacheDir[key].expiresAt
                    THEN [exists |-> FALSE] ELSE cacheDir[key]]
  /\ cacheResult' =
       [op |-> "clearExpired", at |-> clock,
        cleared |-> Cardinality({key \in CacheKeys :
                                   /\ cacheDir[key].exists
                                   /\ clock > cacheDir[key].expiresAt})]
  /\ UNCHANGED <<clock, lastSet, pending, invocations>>
  /\ UNCHANGED <<coreVars, cmdVars, extVars, linVars, warehouse>>

\* time passes: Date.now() grows
Tick ==
  /\ \E t \in {1000, 2000, 3000, 3600000, 3601000} :
       /\ t > clock
       /\ clock' = t
  /\ UNCHANGED <<cacheDir, cacheResult, lastSet, pending, invocations>>
  /\ UNCHANGED <<coreVars, cmdVars, extVars, linVars, warehouse>>

\* a call of cached(fn, { namespace: "scan", ttl: 2 }) up to its await: the
\* stored value is returned, or fn is invoked
CachedCall ==
  /\ \E c \in 1..MaxCalls, args \in ArgLists :
       LET key == generateCacheKey("scan", args)
           found == get(cacheDir, key, clock)
       IN  /\ pending[c].state = "idle"
           /\ cacheDir' = found.dir
           /\ IF found.value # JsNull
              THEN /\ pending' = [pending EXCEPT ![c] =
                                    [state |-> "returned", args |-> args,
                                     value |-> found.value]]
                   /\ invocations' = invocations
              ELSE /\ pending' = [pending EXCEPT ![c] =
                                    [state |-> "awaiting", args |-> args]]
                   /\ invocations' =
                        Append(invocations,
                               [args |-> args,
                                stored |-> /\ cacheDir[key].exists
                                           /\ clock <= cacheDir[key].expiresAt,
                                overlaps |-> \E d \in 1..MaxCalls :
                                               /\ pending[d].state = "awaiting"
                                               /\ pending[d].args = args])
           /\ cacheResult' = [op |-> "cached", key |-> key, at |-> clock]
  /\ UNCHANGED <<clock, lastSet>>
  /\ UNCHANGED <<coreVars, cmdVars, extVars, linVars, warehouse>>

\* the promise of fn resolves: the result is stored and returned
CachedResolve ==
  /\ \E c \in 1..MaxCalls, fnResult \in {JsStr("rows"), JsNull, JsUndefined} :
       LET key == generateCacheKey("scan", pending[c].args)
       IN  /\ pending[c].state = "awaiting"
           /\ cacheDir' = set(cacheDir, key, fnResult, JsNum("2"), clock)
           /\ lastSet' = [lastSet EXCEPT ![key] =
                            [written |-> TRUE, value |-> fnResult,
                             ttl |-> JsNum("2"), at |-> clock,
                             deleted |-> FALSE]]
           /\ pending' = [pending EXCEPT ![c] =
                            [state |-> "returned", args |-> pending[c].args,
                             value |-> fnResult]]
           /\ cacheResult' = [op |-> "cached", key |-> key, at |-> clock]
  /\ UNCHANGED <<clock, invocations>>
  /\ UNCHANGED <<coreVars, cmdVars, extVars, linVars, warehouse>>

\* the cache used directly
NextCache ==
  \/ Set
  \/ Get
  \/ Del
  \/ ClearExpired
  \/ Tick

SpecCache == InitCache /\ [][NextCache]_vars

\* the cache used through the wrapper
NextCached ==
  \/ CachedCall
  \/ CachedResolve
  \/ ClearExpired
  \/ Tick

SpecCached == InitCache /\ [][NextCached]_vars

(***************************************************************************)
(* Vocabulary of the properties.                                           *)
(***************************************************************************)
Detected == pc \in {"detected", "reviewed"}
Reviewed == pc = "reviewed"

\* an issue of the detector with this pattern and severity
HasIssue(found, pattern, severity) ==
  \E k \in 1..Len(found) :
    found[k].pattern = pattern /\ found[k].severity = severity

HasPattern(found, pattern) ==
  \E k \in 1..Len(found) : found[k].pattern = pattern

\* an issue of a review with this title and severity
HasReviewIssue(found, title, severity) ==
  \E k \in 1..Len(found) :
    found[k].title = title /\ found[k].severity = severity

\* how many issues of a list have this severity
SeverityCount(found, severity) ==
  Cardinality({k \in 1..Len(found) : found[k].severity = severity})

\* the summed penalties of a list of issues
Penalty(found) ==
  25 * SeverityCount(found, "critical") + 15 * SeverityCount(found, "high")
  + 10 * SeverityCount(found, "medium") + 5 * SeverityCount(found, "low")

\* p occurs in s in some letter case (p is given in lower case)
ContainsIgnoringCase(s, p) ==
  \E i \in 1..(Len(s) - Len(p) + 1) :
    \A k \in 1..Len(p) : LowerChar(CharAt(s, i + k - 1)) = CharAt(p, k)

\* the end-to-end scenario of the specification
ScenarioContent ==
  "{{ config(materialized='incremental') }}\nselect * from {{ source('raw','orders') }}"
ScenarioReviewed ==
  /\ Reviewed
  /\ content = ScenarioContent
  /\ fileName = "fct_orders.sql"
  /\ ~strict

(***************************************************************************)
(* C1 (as stated): for the scenario content, parsed as fct_orders.sql, the *)
(* detector reports both "Incremental without unique_key" (critical) and   *)
(* "SELECT * in production" (high), and the non-strict review requests     *)
(* changes with a score of at most 75.                                     *)
(***************************************************************************)
C1_ScenarioAsStated ==
  ScenarioReviewed =>
    /\ HasIssue(issues, "Incremental without unique_key", "critical")
    /\ HasIssue(issues, "SELECT * in production", "high")
    /\ review.overall = "request_changes"
    /\ review.score <= 75

(***************************************************************************)
(* C1 (amended): the scenario content has no is_incremental() call, so the *)
(* detector reports "SELECT * in production" (high, line 2) and nothing    *)
(* else, in particular not "Incremental without unique_key"; the           *)
(* non-strict review is a comment with score 85.                           *)
(***************************************************************************)
C1_ScenarioAmended ==
  ScenarioReviewed =>
    /\ issues = <<IssueAt("SELECT * in production", "high", 2)>>
    /\ ~HasPattern(issues, "Incremental without unique_key")
    /\ review.overall = "comment"
    /\ review.score = 85

C1_Witness ==
  /\ ScenarioReviewed
  /\ model.materialization = "incremental"
  /\ ~HasUniqueKey(model)

(***************************************************************************)
(* C2: the analyze command ends with exit code 1 exactly when one of the   *)
(* analyzed files contains a critical anti-pattern, in every output mode,  *)
(* and with exit code 0 otherwise, as long as no I/O error occurs.         *)
(***************************************************************************)
FileHasCritical(file, wh) ==
  LET name == Basename(file.path, ".sql")
      found == detectAntiPatternsFromContent(
                 file.content, parseModel(file.content, name), wh)
  IN  \E k \in 1..Len(found) : found[k].severity = "critical"

C2_AnalyzeExitCode ==
  (cmd = "analyze" /\ ~opts.fails) =>
    exitCode = (IF \E k \in 1..Len(files) : FileHasCritical(files[k], warehouse)
                THEN 1 ELSE 0)

(***************************************************************************)
(* C3: the score of a review is an integer from 0 to 100, and it is 0      *)
(* whenever the summed penalties of the issues reach 100.                  *)
(***************************************************************************)
C3_ScoreClamped ==
  Reviewed =>
    /\ review.score \in 0..100
    /\ (Penalty(review.issues) >= 100 => review.score = 0)

C3_Witness == Reviewed /\ Penalty(review.issues) > 100

(***************************************************************************)
(* C4 (as stated): adding one critical issue to an issue set lowers the    *)
(* score reviewCode computes by at least 25.                               *)
(***************************************************************************)
ExtraCritical == [severity |-> "critical", title |-> "CROSS JOIN detected"]

C4_MonotoneAsStated ==
  Reviewed =>
    ScoreOf(Append(review.issues, ExtraCritical)) <= review.score - 25

(***************************************************************************)
(* C4 (amended): adding one critical issue to an issue set A gives the     *)
(* score max(0, score(A) - 25): 25 lower when score(A) >= 25, and 0 when   *)
(* score(A) < 25.                                                          *)
(***************************************************************************)
C4_MonotoneAmended ==
  Reviewed =>
    /\ ScoreOf(review.issues) = review.score
    /\ ScoreOf(Append(review.issues, ExtraCritical))
         = Max2(0, review.score - 25)

C4_Witness == Reviewed /\ review.score \in 1..24

(***************************************************************************)
(* C5: the verdict depends on the returned issues and the strict flag      *)
(* only: request_changes with a critical issue; else, with a high issue,   *)
(* request_changes when strict and comment when not; else comment with     *)
(* any issue; else approve.  approve is returned exactly for an empty      *)
(* issue list.                                                             *)
(***************************************************************************)
C5_Verdict ==
  Reviewed =>
    LET c == SeverityCount(review.issues, "critical")
        h == SeverityCount(review.issues, "high")
    IN  /\ c > 0 => review.overall = "request_changes"
        /\ (c = 0 /\ h > 0 /\ strict) => review.overall = "request_changes"
        /\ (c = 0 /\ h > 0 /\ ~strict) => review.overall = "comment"
        /\ (c = 0 /\ h = 0 /\ Len(review.issues) > 0) => review.overall = "comment"
        /\ (review.overall = "approve" <=> Len(review.issues) = 0)

C5_Witness ==
  /\ Reviewed
  /\ ~strict
  /\ SeverityCount(review.issues, "critical") = 0
  /\ SeverityCount(review.issues, "high") > 0
  /\ review.overall = "comment"

(***************************************************************************)
(* C6: the score equals max(0, 100 - 25c - 15h - 10m - 5l) over the        *)
(* returned issues (those of the detector and those of the strict block);  *)
(* the strengths do not enter it.                                          *)
(***************************************************************************)
C6_ScoreFormula ==
  Reviewed => review.score = Max2(0, 100 - Penalty(review.issues))

C6_Witness ==
  /\ Reviewed
  /\ strict
  /\ Len(review.issues) > Len(issues)
  /\ Len(issues) > 0
  /\ Len(review.strengths) > 0
  /\ review.score > 0

(***************************************************************************)
(* C7: in a result of the detector every rule's pattern appears at most    *)
(* once and the issues follow the order of the rule table, whatever their  *)
(* severities.                                                             *)
(***************************************************************************)
RuleOrder ==
  <<"SELECT * in production", "Join in staging model", "ref() in staging model",
    "Incremental without unique_key", "Unbounded incremental filter",
    "Hardcoded date literal", "DISTINCT after JOIN (possible fan-out fix)",
    "CROSS JOIN detected", "Function on filter/join column",
    "Non-deterministic function in view", "LIMIT without ORDER BY",
    "High CTE count">>

RuleRank(pattern) ==
  IF \E r \in 1..Len(RuleOrder) : RuleOrder[r] = pattern
  THEN CHOOSE r \in 1..Len(RuleOrder) : RuleOrder[r] = pattern
  ELSE 0

C7_RuleOrder ==
  Detected =>
    /\ \A k \in 1..Len(issues) : RuleRank(issues[k].pattern) > 0
    /\ \A k \in 1..(Len(issues) - 1) :
         RuleRank(issues[k].pattern) < RuleRank(issues[k + 1].pattern)

C7_Witness ==
  /\ Detected
  /\ Len(issues) >= 4
  /\ \E j, k \in 1..Len(issues) :
       j < k /\ issues[j].severity = "medium" /\ issues[k].severity = "critical"

(***************************************************************************)
(* C8: given a model of type staging with a non-empty refs list, the       *)
(* detector reports "ref() in staging model" (high) for every content and  *)
(* warehouse; the text decides nothing about this issue.                   *)
(***************************************************************************)
C8_RefInStaging ==
  Detected =>
    (HasIssue(issues, "ref() in staging model", "high")
       <=> (model.type = "staging" /\ Len(model.refs) > 0))

C8_Witness ==
  /\ Detected
  /\ model.type = "staging"
  /\ Len(model.refs) > 0
  /\ ~Includes(content, "ref(")
  /\ HasIssue(issues, "ref() in staging model", "high")

(***************************************************************************)
(* C9: in the local review command a file named stg_customers.sql whose    *)
(* text contains {{ ref('int_customers') }} gets the "ref() in staging     *)
(* model" issue (high), whatever directory its path names.                 *)
(***************************************************************************)
C9_StagingRefInReview ==
  (cmd = "review" /\ opts.local /\ ~opts.fails) =>
    \A k \in 1..Len(reviews) :
      (/\ LastSegment(files[k].path) = "stg_customers.sql"
       /\ Includes(files[k].content, "{{ ref('int_customers') }}"))
      => HasReviewIssue(reviews[k].issues, "ref() in staging model", "high")

(***************************************************************************)
(* C10: a text that contains "cross join" in any letter case gets the      *)
(* critical issue "CROSS JOIN detected", for every model type and          *)
(* warehouse.                                                              *)
(***************************************************************************)
C10_CrossJoin ==
  (Detected /\ ContainsIgnoringCase(content, "cross join")) =>
    HasIssue(issues, "CROSS JOIN detected", "critical")

C10_Witness ==
  /\ Detected
  /\ Includes(content, "Cross Join")
  /\ ~Includes(content, "cross join")
  /\ model.type = "staging"
  /\ warehouse = "postgres"
  /\ HasIssue(issues, "CROSS JOIN detected", "critical")
(***************************************************************************)
(* C11: parseModel assigns exactly one type, the first of the chain that   *)
(* matches the file name: stg_ prefix staging, else int_ prefix            *)
(* intermediate, else fct_ prefix fact, else dim_ prefix dimension, else   *)
(* the substring "snapshot" snapshot, else unknown; stg_int_orders.sql is  *)
(* staging, and so is a stg_ name that contains "snapshot".                *)
(***************************************************************************)
Parsed == pc \in {"parsed", "detected", "reviewed"}

NamePrefix == IF Len(fileName) >= 4 THEN SubSeq(fileName, 1, 4) ELSE ""

C11_TypePrecedence ==
  Parsed =>
    /\ model.type \in {"staging", "intermediate", "fact", "dimension",
                       "snapshot", "unknown"}
    /\ NamePrefix = "stg_" => model.type = "staging"
    /\ NamePrefix = "int_" => model.type = "intermediate"
    /\ NamePrefix = "fct_" => model.type = "fact"
    /\ NamePrefix = "dim_" => model.type = "dimension"
    /\ (NamePrefix \notin {"stg_", "int_", "fct_", "dim_"}
        /\ Includes(fileName, "snapshot")) => model.type = "snapshot"
    /\ (NamePrefix \notin {"stg_", "int_", "fct_", "dim_"}
        /\ ~Includes(fileName, "snapshot")) => model.type = "unknown"
    /\ fileName = "stg_int_orders.sql" => model.type = "staging"

C11_Witness ==
  /\ Parsed
  /\ fileName = "stg_orders_snapshot.sql"
  /\ model.type = "staging"

(***************************************************************************)
(* C12 (as stated): the type parseModel gives a file name equals the type  *)
(* it gives the lower-cased file name.                                     *)
(***************************************************************************)
C12_CaseInsensitiveAsStated ==
  Parsed => model.type = parseModel(content, LowerCased(fileName)).type

(***************************************************************************)
(* C12 (amended): the file name is compared as given, so the inference is  *)
(* case-sensitive: a prefix type is assigned only to a name that starts    *)
(* with the lower-case prefix, snapshot only to a name that contains       *)
(* "snapshot" in lower case; a name without upper-case letters gets the    *)
(* type of its lower-cased form, and STG_Orders.sql is unknown.            *)
(***************************************************************************)
C12_CaseSensitive ==
  Parsed =>
    /\ model.type \in {"staging", "intermediate", "fact", "dimension"}
         => NamePrefix \in {"stg_", "int_", "fct_", "dim_"}
    /\ model.type = "snapshot" => ContainsIgnoringCase(fileName, "snapshot")
                                  /\ Includes(fileName, "snapshot")
    /\ model.type # parseModel(content, LowerCased(fileName)).type
         => /\ fileName # LowerCased(fileName)
            /\ model.type \in {"unknown", "snapshot"}
    /\ fileName = "STG_Orders.sql" => model.type = "unknown"

C12_Witness ==
  /\ Parsed
  /\ fileName = "STG_Orders.sql"
  /\ model.type = "unknown"
  /\ parseModel(content, LowerCased(fileName)).type = "staging"

(***************************************************************************)
(* C13: refs holds the name of every {{ ref('<name>') }} occurrence of the *)
(* text, in order of appearance and without de-duplication: its length is  *)
(* the number of occurrences, and ref('a'), ref('b'), ref('a') give        *)
(* <<a, b, a>>.                                                            *)
(***************************************************************************)
\* the names the ref occurrences of a line of Lines carry, left to right
LineRefs(line) ==
  IF line = Lines[4] THEN <<"int_customers">>
  ELSE IF line = Lines[9] THEN <<"a", "b", "a">>
  ELSE << >>

RefOccurrences(s) ==
  Cardinality({i \in 1..Len(s) : StartsWithAt(s, "{{ ref(", i)})

C13_RefsInOrder ==
  Parsed =>
    /\ model.refs = Flatten([k \in 1..Len(Split(content)) |->
                               LineRefs(Split(content)[k])])
    /\ Len(model.refs) = RefOccurrences(content)
    /\ content = Lines[9] => model.refs = <<"a", "b", "a">>

C13_Witness ==
  /\ Parsed
  /\ content = Lines[9] \o NL \o Lines[4]
  /\ model.refs = <<"a", "b", "a", "int_customers">>

C17_WarehouseRules ==
  Detected =>
    /\ HasPattern(issues, "Non-deterministic function in view")
         => warehouse = "snowflake"
    /\ HasPattern(issues, "LIMIT without ORDER BY") => warehouse = "bigquery"
    /\ warehouse \notin {"snowflake", "bigquery"} =>
         issues = detectAntiPatternsFromContent(content, model, "postgres")

C17_Witness ==
  /\ Detected
  /\ warehouse = "Snowflake"
  /\ Includes(ToLower(content), "uuid_string()")
  /\ Includes(ToLower(content), "limit")
  /\ ~Includes(ToLower(content), "order by")
  /\ model.materialization = "view"
  /\ ~HasPattern(issues, "Non-deterministic function in view")
  /\ ~HasPattern(issues, "LIMIT without ORDER BY")
(***************************************************************************)
(* C16: when the core is called once per file, the calls in any order or   *)
(* interleaving, the ParsedModel, the issue list and the review of each    *)
(* file are those of that file processed alone: no call changes what       *)
(* another call, or an earlier step of the same call, has bound.           *)
(***************************************************************************)
AloneModel(k) == parseModel(files[k].content, files[k].path)

BuiltInDefaults ==
  [version     |-> JsNum("1"),
   warehouse   |-> JsStr("snowflake"),
   apiUrl      |-> JsUndefined,
   modeling    |-> [approach |-> JsStr("kimball")],
   ai          |-> [enabled |-> JsBool(FALSE), apiKey |-> JsNull],
   connections |-> NoConnections]

LoadedFile == disk[getConfigPath(result.path)]

C18_DefaultsKept ==
  result.op = "loadConfig" =>
    /\ LoadedFile.kind = "absent" => result.value = BuiltInDefaults
    /\ LoadedFile.kind = "doc" =>
         /\ "version" \notin DOMAIN LoadedFile.top
              => result.value.version = BuiltInDefaults.version
         /\ "warehouse" \notin DOMAIN LoadedFile.top
              => result.value.warehouse = BuiltInDefaults.warehouse
         /\ "approach" \notin DOMAIN LoadedFile.modeling
              => result.value.modeling.approach = JsStr("kimball")
         /\ "enabled" \notin DOMAIN LoadedFile.ai
              => result.value.ai.enabled = JsBool(FALSE)
         /\ "apiKey" \notin DOMAIN LoadedFile.ai
              => result.value.ai.apiKey = JsNull
         /\ DOMAIN LoadedFile.connections = {}
              => DOMAIN result.value.connections = {}

(***************************************************************************)
(* C19: after saveConfig(c, path), loadConfig(path) returns a              *)
(* configuration whose fields equal those of c, as long as the file at     *)
(* that path has not been written again.                                   *)
(***************************************************************************)
SavedAtLoaded == saved[getConfigPath(result.path)]

C19_RoundTrip ==
  (result.op = "loadConfig" /\ SavedAtLoaded.written) =>
    /\ result.value.warehouse = SavedAtLoaded.config.warehouse
    /\ result.value.modeling.approach = SavedAtLoaded.config.modeling.approach
    /\ result.value.ai.enabled = SavedAtLoaded.config.ai.enabled
    /\ result.value.ai.apiKey = SavedAtLoaded.config.ai.apiKey
    /\ result.value.connections = SavedAtLoaded.config.connections

(***************************************************************************)
(* C20: getApiUrl returns the apiUrl of the configuration file of the      *)
(* current directory when it is set, else the environment variable         *)
(* DATACHONK_API_URL when it is set, else https://datachonk.dev (a value   *)
(* that is the empty string counts as not set).                            *)
(***************************************************************************)
FileApiUrl ==
  IF disk[".datachonk.yml"].kind = "doc"
     /\ "apiUrl" \in DOMAIN disk[".datachonk.yml"].top
  THEN disk[".datachonk.yml"].top.apiUrl
  ELSE ""

C20_ApiUrlPrecedence ==
  result.op = "getApiUrl" =>
    result.value = IF FileApiUrl # "" THEN FileApiUrl
                   ELSE IF env.t = "string" /\ env.v # "" THEN env.v
                   ELSE "https://datachonk.dev"

C20_Witness ==
  /\ result.op = "getApiUrl"
  /\ FileApiUrl = "https://config.example.com"
  /\ env = JsStr("https://env.example.com")
  /\ result.value = "https://config.example.com"
  /\ saved[".datachonk.yml"].written

(***************************************************************************)
(* C21: the detector emits "Incremental without unique_key" (critical) iff *)
(* the lower-cased text contains is_incremental() and the parsed config    *)
(* has no unique_key entry; a text without is_incremental() gets neither   *)
(* this issue nor "Unbounded incremental filter", whatever its             *)
(* materialization.                                                        *)
(***************************************************************************)
C21_IncrementalWithoutKey ==
  Detected =>
    /\ HasPattern(issues, "Incremental without unique_key")
         <=> /\ ContainsIgnoringCase(content, "is_incremental()")
             /\ "unique_key" \notin DOMAIN model.config
    /\ HasPattern(issues, "Incremental without unique_key")
         => HasIssue(issues, "Incremental without unique_key", "critical")
    /\ ~ContainsIgnoringCase(content, "is_incremental()")
         => /\ ~HasPattern(issues, "Incremental without unique_key")
            /\ ~HasPattern(issues, "Unbounded incremental filter")

C21_Witness ==
  /\ Detected
  /\ HasIssue(issues, "Incremental without unique_key", "critical")
  /\ model.materialization = "incremental"
  /\ DOMAIN model.config # {}

(***************************************************************************)
(* C22: with strict set, reviewCode appends the low issue "Inconsistent    *)
(* naming convention" and takes 5 from the score exactly when the type is  *)
(* not unknown and the name does not start with the first three letters of *)
(* the type and "_"; of the models of parseModel every staging and every   *)
(* fact model gets it and no intermediate or dimension model does; without *)
(* strict it is never emitted.                                             *)
(***************************************************************************)
NamingIssues ==
  {k \in 1..Len(review.issues) :
     review.issues[k].title = "Inconsistent naming convention"}

WithoutNaming ==
  LET keep[k \in 0..Len(review.issues)] ==
        IF k = 0 THEN << >>
        ELSE IF k \in NamingIssues THEN keep[k - 1]
        ELSE Append(keep[k - 1], review.issues[k])
  IN  keep[Len(review.issues)]

C22_NamingConvention ==
  Reviewed =>
    LET expected ==
          /\ strict
          /\ model.type # "unknown"
          /\ \/ Len(model.name) < 4
             \/ SubSeq(model.name, 1, 4) # SubSeq(model.type, 1, 3) \o "_"
    IN  /\ NamingIssues # {} <=> expected
        /\ \A k \in NamingIssues :
             /\ review.issues[k].severity = "low"
             /\ k = Len(review.issues)
        /\ review.score =
             Max2(0, 100 - Penalty(WithoutNaming) - (IF expected THEN 5 ELSE 0))
        /\ strict /\ model.type \in {"staging", "fact"} => NamingIssues # {}
        /\ model.type \in {"intermediate", "dimension"} => NamingIssues = {}
        /\ ~strict => NamingIssues = {}

C22_Witness ==
  /\ Reviewed
  /\ strict
  /\ model.type = "staging"
  /\ NamingIssues # {}
  /\ review.score > 0
  /\ review.score < 95

(***************************************************************************)
(* C24: every issue of the detector that carries a line has                *)
(* 1 <= line <= lineCount, and that line is the first one that contains    *)
(* the triggering text; the issues whose position is not determinable      *)
(* carry no line; no issue has line 0.                                     *)
(***************************************************************************)
HasDate(line) == \E i \in 1..Len(line) : DateMatchAt(line, i)

Triggers(pattern, line) ==
  CASE pattern = "SELECT * in production" ->
         ContainsIgnoringCase(line, "select *")
    [] pattern = "Join in staging model" ->
         ContainsIgnoringCase(line, " join ")
    [] pattern = "Hardcoded date literal" -> HasDate(line)
    [] pattern = "CROSS JOIN detected" ->
         ContainsIgnoringCase(line, "cross join")
    [] OTHER -> FALSE

Positioned ==
  {"SELECT * in production", "Join in staging model",
   "Hardcoded date literal", "CROSS JOIN detected"}

C24_LineNumbers ==
  Detected =>
    \A k \in 1..Len(issues) :
      /\ "line" \in DOMAIN issues[k] <=> issues[k].pattern \in Positioned
      /\ "line" \in DOMAIN issues[k] =>
           /\ issues[k].line >= 1
           /\ issues[k].line <= model.lineCount
           /\ issues[k].line <= Len(Split(content))
           /\ Triggers(issues[k].pattern, Split(content)[issues[k].line])
           /\ \A j \in 1..(issues[k].line - 1) :
                ~Triggers(issues[k].pattern, Split(content)[j])

C24_Witness ==
  /\ Detected
  /\ \E k \in 1..Len(issues) :
       /\ "line" \in DOMAIN issues[k]
       /\ issues[k].line = 2
  /\ \E k \in 1..Len(issues) :
       /\ "line" \in DOMAIN issues[k]
       /\ issues[k].line = 1
  /\ \E k \in 1..Len(issues) : "line" \notin DOMAIN issues[k]

(***************************************************************************)
(* C25: the issue list of a strict review starts with exactly the list of  *)
(* the non-strict review of the same input, followed by at most two low    *)
(* issues; the strict score is at most the non-strict one, and at least    *)
(* the non-strict one less 10 when the non-strict score is not clamped;    *)
(* the strict verdict is never more lenient                                *)
(* (approve < comment < request_changes).                                  *)
(***************************************************************************)
VerdictRank(v) ==
  CASE v = "approve" -> 0 [] v = "comment" -> 1 [] v = "request_changes" -> 2

C25_StrictExtends ==
  Reviewed /\ strict =>
    LET lenient == reviewCode(model, content, warehouse, FALSE)
        n == Len(lenient.issues)
    IN  /\ Len(review.issues) >= n
        /\ Len(review.issues) <= n + 2
        /\ SubSeq(review.issues, 1, n) = lenient.issues
        /\ \A k \in (n + 1)..Len(review.issues) :
             review.issues[k].severity = "low"
        /\ review.score <= lenient.score
        /\ 100 - Penalty(lenient.issues) >= 0
             => review.score >= lenient.score - 10
        /\ VerdictRank(review.overall) >= VerdictRank(lenient.overall)

C25_Witness ==
  /\ Reviewed
  /\ strict
  /\ Len(review.issues) = Len(issues) + 2
  /\ review.score = ScoreOf(issues) - 10
  /\ review.overall = "request_changes"
  /\ Verdict(review.issues, FALSE) = "comment"

(***************************************************************************)
(* C23: in local review mode, when no I/O error occurs, the review command *)
(* ends with exit code 1 iff strict is set and at least one reviewed file  *)
(* has the verdict request_changes; in every other case (critical issues   *)
(* without strict, and every run with --json output, included) it ends     *)
(* with exit code 0.                                                       *)
(***************************************************************************)
LocalReviewDone ==
  /\ cmd = "review"
  /\ opts.local
  /\ ~opts.fails
  /\ Len(files) > 0

HasBlockers ==
  \E k \in 1..Len(reviews) : reviews[k].overall = "request_changes"

CurrentFile == disk[getConfigPath(".")]

C26_DeletedStaysDeleted ==
  [][/\ (/\ result.op = "deleteConnection"
         /\ result.value = JsBool(TRUE)
         /\ result'.op = "getConnection"
         /\ result'.name = result.name)
        => result'.value = JsNull
     /\ (/\ result'.op = "deleteConnection"
         /\ result'.name \notin DOMAIN CurrentFile.connections)
        => /\ result'.value = JsBool(FALSE)
           /\ disk' = disk]_vars

(***************************************************************************)
(* C27: for every lineage graph, model m, direction and depth d >= 1,      *)
(* collectLineage returns, without duplicates, exactly the names (models   *)
(* and sources) reachable from m by a path of at least 1 and at most d     *)
(* dependency edges in that direction, whatever the order of the           *)
(* dependency lists.                                                       *)
(***************************************************************************)
Edges(x) ==
  IF x \in DOMAIN nodes
  THEN {nodes[x][direction][k] : k \in 1..Len(nodes[x][direction])}
  ELSE {}

RECURSIVE ReachWithin(_, _)
ReachWithin(from, d) ==
  IF d = 0 THEN {}
  ELSE LET next == UNION {Edges(x) : x \in from}
       IN  next \cup ReachWithin(next, d - 1)

Collected ==
  /\ lpc = "done"
  /\ traversal = "collectLineage"

C27_DepthLimitedReach ==
  (Collected /\ ~maxDepth.nan /\ maxDepth.n >= 1) =>
    /\ \A j, k \in 1..Len(out) : out[j] = out[k] => j = k
    /\ {out[k] : k \in 1..Len(out)} = ReachWithin({target}, maxDepth.n)

(***************************************************************************)
(* C28: collectLineage and printLineageTree terminate on every finite      *)
(* lineage graph, cycles and self-references included, for every depth     *)
(* value (negative and non-numeric --depth included); each model is        *)
(* expanded at most once per traversal.                                    *)
(***************************************************************************)
C28_Terminates ==
  /\ [](/\ \A j, k \in 1..Len(expanded) : expanded[j] = expanded[k] => j = k
        /\ Len(stack) < MaxStack)
  /\ (lpc = "enter" /\ stack = << >>) ~> (lpc = "done")

C28_Witness ==
  /\ lpc = "done"
  /\ maxDepth.nan \/ maxDepth.n < 0
  /\ Len(expanded) = 4
  /\ target \in ReachWithin({target}, 4)
  /\ \E x \in DOMAIN nodes : x \in Edges(x)

(***************************************************************************)
(* C29: with the cache enabled, in any sequence of set, get, del,          *)
(* clearExpired and clock advances, get(key) never returns the data of an  *)
(* entry whose expiresAt is earlier than the current time (it returns null *)
(* and removes the entry), and get(key) returns the value of the latest    *)
(* set(key, v, {ttl}) as long as the ttl (the default TTL of 3600 s when   *)
(* none is given) has not elapsed and the key has not been deleted.        *)
(***************************************************************************)
GotKey == lastSet[cacheResult.key]

\* the seconds the latest set asked for
TtlAsked ==
  IF GotKey.ttl.t = "undefined" THEN 3600 ELSE parseInt(GotKey.ttl.v).n

C29_GetHonoursTtl ==
  cacheResult.op = "get" =>
    /\ (cacheResult.entry.exists /\ cacheResult.entry.expiresAt < cacheResult.at)
         => /\ cacheResult.value = JsNull
            /\ ~cacheDir[cacheResult.key].exists
    /\ (/\ GotKey.written
        /\ ~GotKey.deleted
        /\ cacheResult.at < GotKey.at + TtlAsked * 1000)
         => cacheResult.value = GotKey.value

C29_Witness ==
  /\ cacheResult.op = "get"
  /\ cacheResult.key = "scan:prod"
  /\ GotKey.written
  /\ ~GotKey.deleted
  /\ GotKey.ttl = JsNum("2")
  /\ cacheResult.at = GotKey.at + 1000
  /\ cacheResult.value = JsStr("null")

(***************************************************************************)
(* C30: a function wrapped by cached() is invoked at most once per         *)
(* distinct argument list while the stored entry for those arguments is    *)
(* unexpired: every later call with the same arguments -- for any result   *)
(* value of the function, null included, and for any interleaving of       *)
(* overlapping calls -- returns the stored result without invoking the     *)
(* wrapped function again.                                                 *)
(***************************************************************************)
C30_InvokedOnce ==
  \A k \in 1..Len(invocations) :
    /\ ~invocations[k].stored
    /\ ~invocations[k].overlaps

=============================================================================
